---- MODULE Spec2Model ----
(***************************************************************************)
(* A model of wimlib's FUSE mount layer (src/src/mount.c): the dentry      *)
(* tree, the lookup table (catalog) with per-entry file descriptor tables, *)
(* the staging directory, the filesystem callbacks, and the two-process    *)
(* unmount handshake between wimfs_destroy and wimlib_unmount.             *)
(*                                                                         *)
(* Pointers are modelled as small integer ids, 0 standing for NULL (and    *)
(* for the root directory where a parent is meant).  The callbacks are     *)
(* written as functions from a state record S = [d, l, h, f, fault] to a   *)
(* result record, so that a callback's sequential calls compose; an action *)
(* applies one whole callback to the current state.                        *)
(***************************************************************************)
EXTENDS Integers, Sequences, FiniteSets, TLC

(* ----------------------------- bounds ---------------------------------- *)
\* dentry objects besides the root
MaxDentries == 3
\* lookup table entry objects
MaxLtes == 3
\* struct wimlib_fd objects
MaxFds == 2
\* files the staging directory can hold over a mount
MaxFiles == 2
\* longest stream, in bytes
MaxLen == 2
\* callbacks that change the filesystem state, before the unmount
MaxOps == 3

Dentries == 1..MaxDentries
Ltes == 1..MaxLtes
Fds == 1..MaxFds
Files == 1..MaxFiles
Names == {"a", "b"}

(* ----------------------------- constants ------------------------------- *)
fds_per_alloc == 8
max_fds == 65535

(* ----------------------------- hashes ---------------------------------- *)
\* A hash that names no stream: an empty file has it and has no lookup
\* table entry.
ZeroHash == [kind |-> "zero", c |-> <<>>]
\* SHA-1 of a file's contents: a function of the contents, never the zero
\* hash and never a placeholder.
sha1sum(content) == [kind |-> "sha1", c |-> content]
\* The n-th value randomize_byte_array can produce.
RandomHash(n) == [kind |-> "random", c |-> <<n>>]

VARIABLES
    dentries,       \* [Dentries -> struct dentry]
    ltes,           \* [Ltes -> struct lookup_table_entry]; live = in the catalog
    fds,            \* [Fds -> struct wimlib_fd]
    files,          \* [Files -> staging file]: name present?, contents
    mount_flags,    \* [rw, windows]: WIMLIB_MOUNT_FLAG_READWRITE, ..._STREAM_INTERFACE_WINDOWS
    staging_dir,    \* [name: staging_dir_name # NULL, exists: directory on disk]
    daemon,         \* "mounted", the positions of wimfs_destroy, "exited", "crashed"
    ret,            \* what the last callback returned
    fault,          \* the fault the last callback ran into, "none" if none
    nops,           \* filesystem callbacks that changed the state so far
    freed,          \* the lookup table entries the last step destroyed, as they were
    hist,           \* the image as mounted, and whether a mutating call was made
    mq,             \* the message queue namespace and the queues
    driver,         \* the unmount process (wimlib_unmount)
    dd              \* wimfs_destroy's locals and what it has done

fsvars == <<dentries, ltes, fds, files>>
vars == <<dentries, ltes, fds, files, mount_flags, staging_dir, daemon, ret,
          fault, nops, freed, hist, mq, driver, dd>>

(* ----------------------------- objects --------------------------------- *)
FreeDentry ==
    [live |-> FALSE, parent |-> -1, name |-> "", dir |-> FALSE,
     hash |-> ZeroHash, ads |-> <<>>, hard_link |-> 0, num_times_opened |-> 0,
     reparse |-> FALSE]

FreeLte ==
    [live |-> FALSE, hash |-> ZeroHash, refcnt |-> 0, res |-> <<>>,
     original_size |-> 0, staging_file_name |-> 0,
     num_opened_fds |-> 0, num_allocated_fds |-> 0, fds |-> <<>>]

FreeFd ==
    [used |-> FALSE, idx |-> 0, staging_fd |-> -1, lte |-> 0, dentry |-> 0,
     fh |-> FALSE, writable |-> FALSE, pos |-> 0, os_closed |-> FALSE]

FreeFile == [present |-> FALSE, content |-> <<>>]

First(a, b) == a

Min(a, b) == IF a < b THEN a ELSE b

Prefix(s, n) == SubSeq(s, 1, Min(n, Len(s)))

\* The current state as a record the callbacks are applied to.
Cur == [d |-> dentries, l |-> ltes, h |-> fds, f |-> files,
        fault |-> "none", crashed |-> FALSE, freed |-> {}]

Result(S, err) == [S |-> S, err |-> err, data |-> <<>>, fd |-> 0, lte |-> 0]

\* A callback that cannot be modelled within the bounds (no object id left)
\* returns "BOUND"; the actions are not enabled for such a call.

\* A fault inside a callback: a failed wimlib_assert, or undefined behaviour.
\* ub is the outcome the build produces: "crash" (the assertion aborts, the
\* access traps) or "continue" (assertions compiled out, the access lands
\* without visible effect).
Fault(S, kind, ub) ==
    [S EXCEPT !.fault = IF @ = "none" THEN kind ELSE @,
              !.crashed = @ \/ ub = "crash"]

UBOutcomes == {"crash", "continue"}

(* ----------------------------- dentry tree ----------------------------- *)
dentry_is_directory(D, d) == d = 0 \/ (d \in Dentries /\ D[d].dir)

dentry_is_regular_file(D, d) == d \in Dentries /\ ~D[d].dir /\ ~D[d].reparse

dentry_is_empty_directory(D, d) ==
    dentry_is_directory(D, d) /\ \A c \in Dentries : D[c].live => D[c].parent # d

\* The dentries a path names.  The children of a directory are searched by
\* name; when two children carry one name the sibling order decides, which
\* the model leaves open.
RECURSIVE get_dentry(_, _)
get_dentry(D, path) ==
    IF path = <<>> THEN {0}
    ELSE {c \in Dentries :
            /\ D[c].live
            /\ D[c].name = path[Len(path)]
            /\ D[c].parent \in get_dentry(D, SubSeq(path, 1, Len(path) - 1))
            /\ dentry_is_directory(D, D[c].parent)}

get_parent_dentry(D, path) == get_dentry(D, SubSeq(path, 1, Len(path) - 1))

get_dentry_child_with_name(D, parent, name) ==
    {c \in Dentries : D[c].live /\ D[c].parent = parent /\ D[c].name = name}

NoChildren(D, parent) == {}

Children(D, parent) == {c \in Dentries : D[c].live /\ D[c].parent = parent}

\* The hash slots of a dentry: slot 0 is the primary stream, slot i the i-th
\* alternate data stream.
Slots(D, d) == 0..Len(D[d].ads)

HashAt(D, d, slot) == IF slot = 0 THEN D[d].hash ELSE D[d].ads[slot].hash

KeepHashAt(D, d, slot, hash) == D

SetHashAt(D, d, slot, hash) ==
    IF slot = 0 THEN [D EXCEPT ![d].hash = hash]
    ELSE [D EXCEPT ![d].ads[slot].hash = hash]

\* Number of dentries in the hard link group of d.
dentry_link_group_size(D, d) ==
    Cardinality({c \in Dentries :
                    D[c].live /\ D[c].parent # -1 /\ D[c].hard_link = D[d].hard_link})

NewDentry(D) ==
    IF \E c \in Dentries : ~D[c].live
    THEN CHOOSE c \in Dentries : ~D[c].live /\ \A b \in Dentries : ~D[b].live => c <= b
    ELSE 0

\* A hard link group id no dentry carries.
NewGroup(D) ==
    CHOOSE g \in 1..(MaxDentries + 1) :
        /\ \A c \in Dentries : D[c].live => D[c].hard_link # g
        /\ \A k \in 1..(MaxDentries + 1) :
              (\A c \in Dentries : D[c].live => D[c].hard_link # k) => g <= k

unlink_dentry(D, d) == [D EXCEPT ![d].parent = -1]

link_dentry(D, d, parent) == [D EXCEPT ![d].parent = parent]

free_dentry(D, d) == [D EXCEPT ![d] = FreeDentry]

\* Drops a dentry taken out of the tree: it leaves its hard link group and
\* is destroyed, unless a directory handle still holds it open.
put_dentry(D, d) ==
    IF D[d].num_times_opened = 0 THEN free_dentry(D, d) ELSE D

(* ----------------------------- lookup table ---------------------------- *)
__lookup_resource(L, hash) ==
    IF \E e \in Ltes : L[e].live /\ L[e].hash = hash
    THEN CHOOSE e \in Ltes : L[e].live /\ L[e].hash = hash
    ELSE 0

NewLte(L) ==
    IF \E e \in Ltes : ~L[e].live
    THEN CHOOSE e \in Ltes : ~L[e].live /\ \A b \in Ltes : ~L[b].live => e <= b
    ELSE 0

\* File ids no name, no entry and no open descriptor refers to.
UnusedFiles(S) ==
    {f \in Files :
        /\ ~S.f[f].present
        /\ \A e \in Ltes : S.l[e].live => S.l[e].staging_file_name # f
        /\ \A x \in Fds : S.h[x].used => S.h[x].staging_fd # f}

NewFile(S) ==
    IF UnusedFiles(S) # {}
    THEN CHOOSE f \in UnusedFiles(S) : \A g \in UnusedFiles(S) : f <= g
    ELSE 0

UsedHashes(S) ==
    {S.l[e].hash : e \in {x \in Ltes : S.l[x].live}}
    \cup {HashAt(S.d, p[1], p[2]) :
            p \in {q \in Dentries \X (0..1) : S.d[q[1]].live /\ q[2] \in Slots(S.d, q[1])}}

\* randomize_byte_array: a value no hash in use equals (the least such, the
\* choice among unused values being immaterial).
randomize_byte_array(S) ==
    LET N == 1..(2 * MaxDentries + MaxLtes + 1)
        unused == {n \in N : RandomHash(n) \notin UsedHashes(S)}
    IN RandomHash(CHOOSE n \in unused : \A m \in unused : n <= m)

\* Destroys an entry: it leaves the catalog and its staging file, if it has
\* one, is deleted.
free_lookup_table_entry(S, e) ==
    LET f == S.l[e].staging_file_name IN
    [S EXCEPT !.l[e] = FreeLte,
              !.f = IF f # 0 THEN [@ EXCEPT ![f].present = FALSE] ELSE @,
              !.freed = @ \cup {[lte |-> e, refcnt |-> S.l[e].refcnt,
                                 num_opened_fds |-> S.l[e].num_opened_fds]}]

\* Drops one reference of the entry with this hash; the entry is destroyed
\* when that was the last reference and no descriptor is open on it.
\* Returns the entry if it still exists.
lookup_table_decrement_refcnt(S, hash) ==
    LET e == __lookup_resource(S.l, hash) IN
    IF e = 0 THEN [S |-> S, lte |-> 0]
    ELSE LET n == IF S.l[e].refcnt > 0 THEN S.l[e].refcnt - 1 ELSE 0 IN
         IF n = 0 /\ S.l[e].num_opened_fds = 0
         THEN [S |-> free_lookup_table_entry([S EXCEPT !.l[e].refcnt = n], e),
               lte |-> 0]
         ELSE [S |-> [S EXCEPT !.l[e].refcnt = n], lte |-> e]

(* ----------------------------- fd table -------------------------------- *)
NewFd(H) ==
    IF \E x \in Fds : ~H[x].used
    THEN CHOOSE x \in Fds : ~H[x].used /\ \A y \in Fds : ~H[y].used => x <= y
    ELSE 0

AllSlots(fdarr) == 1..Len(fdarr)

FreeSlots(fdarr) == {i \in 1..Len(fdarr) : fdarr[i] = 0}

\* alloc_wimlib_fd: grows the table when it is full, then takes the lowest
\* free slot.  fail = "nomem" is a failing CALLOC.
alloc_wimlib_fd(S, e, fail) ==
    LET L == S.l[e]
        grow == L.num_opened_fds = L.num_allocated_fds
        num_new_fds == Min(fds_per_alloc, (max_fds - L.num_allocated_fds) % 65536)
        L1 == IF grow
              THEN [L EXCEPT !.fds = @ \o [i \in 1..num_new_fds |-> 0],
                             !.num_allocated_fds = (@ + num_new_fds) % 65536]
              ELSE L
        x == NewFd(S.h)
        free == FreeSlots(L1.fds)
    IN
    IF grow /\ L.num_allocated_fds = max_fds THEN Result(S, "EMFILE")
    ELSE IF fail = "nomem" THEN Result(S, "ENOMEM")
    ELSE IF free = {}
         THEN Result(Fault(S, "oob", "crash"), "ABORT")
    ELSE IF x = 0 THEN Result(S, "BOUND")
    ELSE LET i == CHOOSE i \in free : \A j \in free : i <= j
             fd == [FreeFd EXCEPT !.used = TRUE, !.idx = i - 1, !.lte = e]
         IN [S |-> [S EXCEPT !.l[e] = [L1 EXCEPT !.fds[i] = x,
                                                 !.num_opened_fds = (@ + 1) % 65536],
                             !.h[x] = fd],
             err |-> "OK", data |-> <<>>, fd |-> x, lte |-> e]

\* An entry is destroyed by the close that leaves it without open
\* descriptors and without references.
last_close_frees_any(n, refcnt) == n = 0

last_close_frees(n, refcnt) == n = 0 /\ refcnt = 0

\* close_wimlib_fd.  fail = "close" is a failing close(2) on the staging
\* descriptor.
close_wimlib_fd(S, x, ub, fail) ==
    LET e == S.h[x].lte
        L == S.l[e]
        n == (L.num_opened_fds - 1) % 65536
        idx == S.h[x].idx + 1
    IN
    IF L.num_opened_fds = 0 /\ ub = "crash"
    THEN Result(Fault(S, "assert", ub), "ABORT")
    ELSE IF L.staging_file_name # 0 /\ S.h[x].staging_fd = -1
    THEN \* wimlib_assert(fd->staging_fd != -1) fails; without assertions
         \* close(-1) fails with EBADF
         Result(Fault(S, "assert", ub), IF ub = "crash" THEN "ABORT" ELSE "EBADF")
    ELSE IF L.staging_file_name # 0 /\ fail = "close"
    THEN Result(S, "EIO")
    ELSE IF last_close_frees(n, L.refcnt)
    THEN \* free_lookup_table_entry(lte), then lte->fds[fd->idx] = NULL
         \* writes into the freed entry
         Result(Fault([free_lookup_table_entry([S EXCEPT !.l[e].num_opened_fds = n], e)
                          EXCEPT !.h[x] = FreeFd],
                      "use_after_free", ub), IF ub = "crash" THEN "ABORT" ELSE "OK")
    ELSE Result([S EXCEPT !.l[e].num_opened_fds = n,
                          !.l[e].fds = IF idx <= Len(@) THEN [@ EXCEPT ![idx] = 0] ELSE @,
                          !.h[x] = FreeFd], "OK")

(* ----------------------------- remove_dentry --------------------------- *)
PrimaryHashOnly(D, d) == <<D[d].hash>>

StreamHashes(D, d) == [i \in 1..(Len(D[d].ads) + 1) |-> HashAt(D, d, i - 1)]

\* One round of remove_dentry's loop for each stream hash: drop a reference,
\* and if the entry survives with open descriptors, clear the dentry
\* pointer of those that were opened through this dentry.
RECURSIVE remove_dentry_streams(_, _, _)
remove_dentry_streams(S, d, hashes) ==
    IF hashes = <<>> THEN S
    ELSE LET r == lookup_table_decrement_refcnt(S, Head(hashes))
             e == r.lte
             S1 == IF e # 0 /\ r.S.l[e].num_opened_fds # 0
                   THEN [r.S EXCEPT !.h =
                           [x \in Fds |->
                              IF /\ \E i \in 1..Len(r.S.l[e].fds) : r.S.l[e].fds[i] = x
                                 /\ @[x].dentry = d
                              THEN [@[x] EXCEPT !.dentry = 0] ELSE @[x]]]
                   ELSE r.S
         IN remove_dentry_streams(S1, d, Tail(hashes))

remove_dentry(S, d) ==
    LET S1 == remove_dentry_streams(S, d, StreamHashes(S.d, d))
    IN [S1 EXCEPT !.d = put_dentry(unlink_dentry(S1.d, d), d)]

dentry_increment_lookup_table_refcnts(S, d) ==
    LET RECURSIVE inc(_, _)
        inc(L, hashes) ==
            IF hashes = <<>> THEN L
            ELSE LET e == __lookup_resource(L, Head(hashes)) IN
                 inc(IF e # 0 THEN [L EXCEPT ![e].refcnt = @ + 1] ELSE L, Tail(hashes))
    IN [S EXCEPT !.l = inc(S.l, StreamHashes(S.d, d))]

(* ----------------------------- staging --------------------------------- *)
RECURSIVE SortedSeq(_)
SortedSeq(set) ==
    IF set = {} THEN <<>>
    ELSE LET m == CHOOSE i \in set : \A j \in set : i <= j
         IN <<m>> \o SortedSeq(set \ {m})

\* The slots of the old entry that the split moves: open descriptors whose
\* dentry carries the hard link group id of the diverging dentry.
TransferredSlots(S, d, old_lte) ==
    {i \in 1..S.l[old_lte].num_allocated_fds :
        /\ S.l[old_lte].fds[i] # 0
        /\ S.h[S.l[old_lte].fds[i]].dentry # 0
        /\ S.d[S.h[S.l[old_lte].fds[i]].dentry].hard_link = S.d[d].hard_link}

\* Open descriptors of the old entry whose dentry pointer is NULL.
OrphanSlots(S, old_lte) ==
    {i \in 1..S.l[old_lte].num_allocated_fds :
        S.l[old_lte].fds[i] # 0 /\ S.h[S.l[old_lte].fds[i]].dentry = 0}

StampLteNoFile(L, size, refcnt, hash, f) ==
    [L EXCEPT !.live = TRUE, !.original_size = size, !.refcnt = refcnt, !.hash = hash]

\* The fields extract_resource_to_staging_dir sets on the new or reused entry.
StampLte(L, size, refcnt, hash, f) ==
    [L EXCEPT !.live = TRUE, !.original_size = size, !.refcnt = refcnt,
              !.hash = hash, !.staging_file_name = f]

KeptIdx(i, j) == i - 1

\* fd->idx = j: the idx of the descriptor found at slot i of the old entry
\* and moved as the j-th (slots and j counted from 1 here, idx from 0).
TransferredIdx(i, j) == j - 1

\* The split branch: a new entry takes the descriptors of the diverging
\* hard link group.
SplitLte(S, d, old_lte, new_lte, size, link_group_size, hash, f) ==
    LET slots == SortedSeq(TransferredSlots(S, d, old_lte))
        k == Len(slots)
        old == S.l[old_lte]
        moved == [j \in 1..k |-> old.fds[slots[j]]]
    IN [S EXCEPT
          !.l[old_lte] =
              [old EXCEPT !.fds = [i \in 1..Len(old.fds) |->
                                     IF \E j \in 1..k : slots[j] = i THEN 0 ELSE old.fds[i]],
                          !.refcnt = @ - link_group_size,
                          !.num_opened_fds = (@ - k) % 65536],
          !.l[new_lte] =
              StampLte([FreeLte EXCEPT !.fds = moved, !.num_opened_fds = k,
                                       !.num_allocated_fds = k],
                       size, link_group_size, hash, f),
          !.h = [x \in Fds |->
                   IF \E j \in 1..k : moved[j] = x
                   THEN [@[x] EXCEPT !.lte = new_lte,
                                     !.idx = LET j == CHOOSE j \in 1..k : moved[j] = x
                                             IN TransferredIdx(slots[j], j)]
                   ELSE @[x]]]

keep_staging_file(S, f) == S

\* out_delete_staging_file: unlink(staging_file_name).
unlink_staging_file(S, f) == [S EXCEPT !.f[f] = FreeFile]

\* extract_resource_to_staging_dir(dentry, &lte, size).  fail names the step
\* the environment lets fail: "create" (create_staging_file), "extract"
\* (extract_resource_to_fd), "close" (close(2) of the new file), "nomem"
\* (new_lookup_table_entry or MALLOC).  A failure after the file was
\* created goes through out_delete_staging_file.
extract_resource_to_staging_dir(S, d, old_lte, size, fail, ub) ==
    LET f == NewFile(S)
        content == IF old_lte # 0 THEN Prefix(S.l[old_lte].res, size) ELSE <<>>
        S0 == [S EXCEPT !.f[f] = [present |-> TRUE, content |-> content]]
        link_group_size == dentry_link_group_size(S.d, d)
        hash == randomize_byte_array(S)
        new_lte == NewLte(S.l)
    IN
    IF fail = "create" THEN Result(S, "EACCES")
    ELSE IF f = 0 THEN Result(S, "BOUND")
    ELSE IF (old_lte # 0 /\ fail = "extract") \/ fail = "close"
    THEN Result(unlink_staging_file(S0, f), "EIO")
    ELSE IF old_lte # 0 /\ link_group_size = S.l[old_lte].refcnt
    THEN \* re-use the lookup table entry
         [Result([S0 EXCEPT !.l[old_lte] = StampLte(@, size, link_group_size, hash, f)],
                 "OK") EXCEPT !.lte = old_lte]
    ELSE IF old_lte # 0 /\ S.l[old_lte].refcnt < link_group_size
    THEN \* wimlib_assert(old_lte->refcnt > link_group_size) fails
         Result(Fault(S, "assert", "crash"), "ABORT")
    ELSE IF fail = "nomem" THEN Result(unlink_staging_file(S0, f), "ENOMEM")
    ELSE IF new_lte = 0 THEN Result(S, "BOUND")
    ELSE IF old_lte = 0
    THEN [Result([S0 EXCEPT !.l[new_lte] =
                        StampLte(FreeLte, size, link_group_size, hash, f)],
                 "OK") EXCEPT !.lte = new_lte]
    ELSE IF OrphanSlots(S, old_lte) # {}
    THEN \* old_lte->fds[i]->dentry->hard_link with dentry == NULL
         Result(Fault(S, "null_dereference", "crash"), "ABORT")
    ELSE IF TransferredSlots(S, d, old_lte) = {}
    THEN \* MALLOC(0): a NULL result fails the call; otherwise the transfer
         \* loop, which ends only at the num_transferred_fds-th match, runs
         \* off the end of old_lte->fds
         IF ub = "crash" THEN Result(Fault(S, "out_of_bounds", "crash"), "ABORT")
         ELSE Result(unlink_staging_file(S0, f), "ENOMEM")
    ELSE [Result(SplitLte(S0, d, old_lte, new_lte, size, link_group_size, hash, f),
                 "OK") EXCEPT !.lte = new_lte]

(* ----------------------------- callbacks ------------------------------- *)
\* A name and a path as the strings the code compares: a path starts with
\* a slash, a name holds none.
NameString(name) == <<name>>
PathString(path) == <<"/">> \o path
path_basename(path) == path[Len(path)]

AdsIndex(D, d, stream) ==
    IF \E i \in 1..Len(D[d].ads) : D[d].ads[i].name = stream
    THEN CHOOSE i \in 1..Len(D[d].ads) : D[d].ads[i].name = stream
    ELSE 0

\* lookup_resource(w, path, get_lookup_flags(), &dentry, &lte, &hash): the
\* dentry, and the hash slot the path addresses (a stream name is honoured
\* only with the Windows stream interface).  A set, for the sake of
\* directories that hold one name twice.
lookup_resource(D, mf, path, stream) ==
    IF get_dentry(D, path) \cap Dentries = {}
    THEN {[err |-> "ENOENT", dentry |-> 0, slot |-> 0]}
    ELSE {IF D[d].dir THEN [err |-> "EISDIR", dentry |-> d, slot |-> 0]
          ELSE IF mf.windows /\ stream # ""
          THEN IF AdsIndex(D, d, stream) = 0
               THEN [err |-> "ENOENT", dentry |-> d, slot |-> 0]
               ELSE [err |-> "OK", dentry |-> d, slot |-> AdsIndex(D, d, stream)]
          ELSE [err |-> "OK", dentry |-> d, slot |-> 0]
          : d \in get_dentry(D, path) \cap Dentries}

\* wimfs_open.  fail: "create", "extract", "nomem" (see
\* extract_resource_to_staging_dir), "nomem_fd" (alloc_wimlib_fd), "open"
\* (open(2) of the staging file).
wimfs_open(S, mf, lr, writable, fail, ub) ==
    LET d == lr.dentry
        lte0 == __lookup_resource(S.l, HashAt(S.d, d, lr.slot))
        \* memcpy(dentry_hash, lte->hash, WIM_HASH_SIZE) after a successful
        \* extract_resource_to_staging_dir
        CopyHash(r) ==
            IF r.err # "OK" THEN r
            ELSE [r EXCEPT !.S.d = SetHashAt(@, d, lr.slot, r.S.l[r.lte].hash)]
        \* open(2) failed: close_wimlib_fd(fd), return -errno
        OpenFailed(rc, present) ==
            [rc EXCEPT !.err = IF rc.S.crashed THEN "ABORT"
                               ELSE IF present THEN "EACCES" ELSE "ENOENT"]
        \* fd->staging_fd = open(lte->staging_file_name, fi->flags)
        OpenStaging(S3, x, lte, f) ==
            IF f # 0 /\ (~S3.f[f].present \/ fail = "open")
            THEN OpenFailed(close_wimlib_fd(S3, x, ub, "none"), S3.f[f].present)
            ELSE [Result([S3 EXCEPT !.h[x].staging_fd = IF f # 0 THEN f ELSE -1,
                                    !.h[x].fh = TRUE], "OK")
                  EXCEPT !.fd = x, !.lte = lte]
        Staged(r3, x) ==
            IF r3.err # "OK" THEN r3
            ELSE OpenStaging(r3.S, x, r3.lte, r3.S.l[r3.lte].staging_file_name)
        \* a writable open of a stream that is not staged yet
        Diverge(S2, x, lte) ==
            IF writable /\ S2.l[lte].staging_file_name = 0
            THEN Staged(CopyHash(extract_resource_to_staging_dir(
                                     S2, d, lte, S2.l[lte].original_size, fail, ub)), x)
            ELSE OpenStaging(S2, x, lte, S2.l[lte].staging_file_name)
        Allocated(r2, lte) ==
            IF r2.err # "OK" THEN r2
            ELSE Diverge([r2.S EXCEPT !.h[r2.fd].dentry = d,
                                      !.h[r2.fd].writable = writable], r2.fd, lte)
        Found(r1) ==
            IF r1.err # "OK" THEN r1
            ELSE Allocated(alloc_wimlib_fd(r1.S, r1.lte,
                                           IF fail = "nomem_fd" THEN "nomem" ELSE "none"),
                           r1.lte)
    IN
    IF lr.err # "OK" THEN Result(S, lr.err)
    ELSE IF lte0 = 0 /\ ~mf.rw THEN Result(S, "OK")
    ELSE IF lte0 = 0
    THEN Found(CopyHash(extract_resource_to_staging_dir(S, d, 0, 0, fail, ub)))
    ELSE Found([Result(S, "OK") EXCEPT !.lte = lte0])

\* wimfs_release.  Whatever close_wimlib_fd returns, the kernel has dropped
\* the handle: a descriptor that was not freed stays allocated for good.
wimfs_release(S, x, ub, fail) ==
    LET rc == close_wimlib_fd(S, x, ub, fail) IN
    IF rc.err = "OK" THEN rc
    ELSE [rc EXCEPT !.S.h[x].fh = FALSE]

\* What read(2) on a staging descriptor returns at an offset.
FileRead(content, size, offset) ==
    IF offset >= Len(content) THEN <<>>
    ELSE SubSeq(content, offset + 1, Min(offset + size, Len(content)))

\* wimfs_read.  fail = "io" is a failing read_resource.
wimfs_read(S, x, size, offset, fail, ub) ==
    LET L == S.l[S.h[x].lte]
        sfd == S.h[x].staging_fd
        data == FileRead(S.f[sfd].content, size, offset)
        n == Min(size, L.original_size - offset)
    IN
    IF L.staging_file_name # 0
    THEN IF sfd = -1
         THEN \* wimlib_assert(fd->staging_fd != -1) fails; without
              \* assertions lseek(-1) fails with EBADF
              Result(Fault(S, "assert", ub), IF ub = "crash" THEN "ABORT" ELSE "EBADF")
         ELSE [Result([S EXCEPT !.h[x].pos = offset + Len(data)], "OK")
               EXCEPT !.data = data]
    ELSE IF offset > L.original_size THEN Result(S, "EOVERFLOW")
    ELSE IF fail = "io" THEN Result(S, "EIO")
    ELSE [Result(S, "OK") EXCEPT !.data = FileRead(Prefix(L.res, L.original_size),
                                                   n, offset)]

\* What write(2) of buf at position pos leaves in a file.
FileWrite(content, buf, pos) ==
    [i \in 1..(IF pos + Len(buf) > Len(content) THEN pos + Len(buf) ELSE Len(content)) |->
        IF i > pos /\ i <= pos + Len(buf) THEN buf[i - pos]
        ELSE IF i <= Len(content) THEN content[i] ELSE 0]

\* wimfs_write: writes at the descriptor's position; the offset argument
\* is not used.
wimfs_write(S, x, buf, ub) ==
    LET L == S.l[S.h[x].lte]
        sfd == S.h[x].staging_fd
    IN
    IF L.staging_file_name = 0 \/ sfd = -1
    THEN Result(Fault(S, "assert", ub), IF ub = "crash" THEN "ABORT" ELSE "EBADF")
    ELSE [Result([S EXCEPT !.f[sfd].content = FileWrite(@, buf, S.h[x].pos),
                           !.h[x].pos = @ + Len(buf)], "OK")
          EXCEPT !.data = buf]

\* What truncate(2) to size leaves in a file.
FileTruncate(content, size) ==
    [i \in 1..size |-> IF i <= Len(content) THEN content[i] ELSE 0]

\* wimfs_truncate.  The hash slot of the dentry is not written.
wimfs_truncate(S, mf, lr, size, fail, ub) ==
    LET d == lr.dentry
        lte == __lookup_resource(S.l, HashAt(S.d, d, lr.slot))
        f == S.l[lte].staging_file_name
        r == extract_resource_to_staging_dir(S, d, lte, size, fail, ub)
    IN
    IF lr.err # "OK" THEN Result(S, lr.err)
    ELSE IF lte = 0 THEN Result(S, "OK")
    ELSE IF f # 0
    THEN IF ~S.f[f].present THEN Result(S, "ENOENT")
         ELSE Result([S EXCEPT !.f[f].content = FileTruncate(@, size),
                               !.l[lte].original_size = size], "OK")
    ELSE r

\* clone_dentry followed by change_dentry_name: a copy of the dentry under
\* another name, carrying the same hashes and hard link group id.
clone_dentry(D, c, d, name) ==
    [D EXCEPT ![c] = [D[d] EXCEPT !.name = name, !.parent = -1,
                                  !.num_times_opened = 0]]

\* wimfs_link(to, from): from becomes a hard link of to.
wimfs_link(S, to, from) ==
    LET parents == get_parent_dentry(S.d, from)
        c == NewDentry(S.d)
    IN
    {IF to_dentry = 0 THEN Result(S, "ENOENT")
     ELSE IF ~dentry_is_regular_file(S.d, to_dentry) THEN Result(S, "EPERM")
     ELSE IF from_dentry_parent = -1 THEN Result(S, "ENOENT")
     ELSE IF ~dentry_is_directory(S.d, from_dentry_parent) THEN Result(S, "ENOTDIR")
     ELSE IF get_dentry_child_with_name(S.d, from_dentry_parent, path_basename(from)) # {}
     THEN Result(S, "EEXIST")
     ELSE IF c = 0 THEN Result(S, "BOUND")
     ELSE Result(dentry_increment_lookup_table_refcnts(
                     [S EXCEPT !.d = link_dentry(
                                        clone_dentry(@, c, to_dentry, path_basename(from)),
                                        c, from_dentry_parent)], c), "OK")
     : to_dentry \in (IF get_dentry(S.d, to) = {} THEN {0} ELSE get_dentry(S.d, to)),
       from_dentry_parent \in (IF parents = {} THEN {-1} ELSE parents)}

new_dentry(D, c, name) ==
    [D EXCEPT ![c] = [FreeDentry EXCEPT !.live = TRUE, !.name = name,
                                        !.hard_link = NewGroup(D)]]

\* wimfs_mknod.  With the Windows stream interface a path with a stream
\* name adds an alternate data stream; otherwise a regular file is made.
\* The duplicate check hands the whole path to get_dentry_child_with_name.
wimfs_mknod(S, mf, path, stream) ==
    LET c == NewDentry(S.d)
        targets == get_dentry(S.d, path)
        parents == get_parent_dentry(S.d, path)
    IN
    IF mf.windows /\ stream # ""
    THEN {IF dentry = 0 \/ ~dentry_is_regular_file(S.d, dentry) THEN Result(S, "ENOENT")
          ELSE IF AdsIndex(S.d, dentry, stream) # 0 THEN Result(S, "EEXIST")
          ELSE Result([S EXCEPT !.d[dentry].ads =
                          Append(@, [name |-> stream, hash |-> ZeroHash])], "OK")
          : dentry \in (IF targets = {} THEN {0} ELSE targets)}
    ELSE {IF parent = -1 THEN Result(S, "ENOENT")
          ELSE IF ~dentry_is_directory(S.d, parent) THEN Result(S, "ENOTDIR")
          ELSE IF \E k \in Children(S.d, parent) :
                     NameString(S.d[k].name) = PathString(path)
          THEN Result(S, "EEXIST")
          ELSE IF c = 0 THEN Result(S, "BOUND")
          ELSE Result([S EXCEPT !.d = link_dentry(
                                          new_dentry(@, c, path_basename(path)),
                                          c, parent)], "OK")
          : parent \in (IF parents = {} THEN {-1} ELSE parents)}

\* wimfs_unlink.  fail = "unlink" is a failing unlink(2) of the staging file.
wimfs_unlink(S, mf, lr, fail) ==
    LET d == lr.dentry
        lte == __lookup_resource(S.l, HashAt(S.d, d, lr.slot))
        f == S.l[lte].staging_file_name
        staged == lte # 0 /\ f # 0
        S1 == IF staged THEN [S EXCEPT !.f[f].present = FALSE] ELSE S
        r == lookup_table_decrement_refcnt(S1, HashAt(S1.d, d, lr.slot))
    IN
    IF lr.err # "OK" THEN Result(S, lr.err)
    ELSE IF staged /\ (~S.f[f].present \/ fail = "unlink")
    THEN Result(S, IF S.f[f].present THEN "EACCES" ELSE "ENOENT")
    ELSE IF lr.slot = 0 THEN Result(remove_dentry(S1, d), "OK")
    ELSE Result([r.S EXCEPT !.d[d].ads =
                    SubSeq(@, 1, lr.slot - 1) \o SubSeq(@, lr.slot + 1, Len(@))], "OK")

\* wimfs_rename.
wimfs_rename(S, from, to) ==
    LET srcs == get_dentry(S.d, from)
        dsts == get_dentry(S.d, to)
        parents == get_parent_dentry(S.d, to)
        Move(T, src, parent) ==
            [T EXCEPT !.d = link_dentry(
                               unlink_dentry([@ EXCEPT ![src].name = path_basename(to)], src),
                               src, parent)]
    IN
    {IF src = -1 THEN Result(S, "ENOENT")
     ELSE IF dst # -1
     THEN IF src = dst THEN Result(S, "OK")
          ELSE IF ~dentry_is_directory(S.d, src) /\ dentry_is_directory(S.d, dst)
          THEN Result(S, "EISDIR")
          ELSE IF dentry_is_directory(S.d, src) /\ ~dentry_is_directory(S.d, dst)
          THEN Result(S, "ENOTDIR")
          ELSE IF dentry_is_directory(S.d, src) /\ Children(S.d, dst) # {}
          THEN Result(S, "ENOTEMPTY")
          ELSE Result(Move(remove_dentry(S, dst), src, S.d[dst].parent), "OK")
     ELSE IF parent = -1 THEN Result(S, "ENOENT")
     ELSE Result(Move(S, src, parent), "OK")
     : src \in (IF srcs = {} THEN {-1} ELSE srcs),
       dst \in (IF dsts = {} THEN {-1} ELSE dsts),
       parent \in (IF parents = {} THEN {-1} ELSE parents)}

(* ----------------------------- directories ----------------------------- *)
\* wimfs_mkdir.
wimfs_mkdir(S, path) ==
    LET c == NewDentry(S.d)
        parents == get_parent_dentry(S.d, path)
    IN
    {IF parent = -1 THEN Result(S, "ENOENT")
     ELSE IF ~dentry_is_directory(S.d, parent) THEN Result(S, "ENOTDIR")
     ELSE IF get_dentry_child_with_name(S.d, parent, path_basename(path)) # {}
     THEN Result(S, "EEXIST")
     ELSE IF c = 0 THEN Result(S, "BOUND")
     ELSE Result([S EXCEPT !.d = link_dentry(
                                     [new_dentry(@, c, path_basename(path))
                                         EXCEPT ![c].dir = TRUE],
                                     c, parent)], "OK")
     : parent \in (IF parents = {} THEN {-1} ELSE parents)}

\* wimfs_opendir: the handle is the dentry.  The root is not opened.
wimfs_opendir(S, path) ==
    LET targets == get_dentry(S.d, path) \cap Dentries IN
    {IF dentry = 0 THEN Result(S, "ENOENT")
     ELSE IF ~dentry_is_directory(S.d, dentry) THEN Result(S, "ENOTDIR")
     ELSE [Result([S EXCEPT !.d[dentry].num_times_opened = @ + 1], "OK")
           EXCEPT !.fd = dentry]
     : dentry \in (IF targets = {} THEN {0} ELSE targets)}

\* wimfs_releasedir on the handle of dentry d.  The last release frees the
\* dentry, in the tree or not: the parent of a dentry still linked is left
\* with a pointer to freed memory.
wimfs_releasedir(S, d, ub) ==
    LET n == S.d[d].num_times_opened - 1 IN
    IF S.d[d].num_times_opened = 0
    THEN Result(Fault(S, "assert", ub), IF ub = "crash" THEN "ABORT" ELSE "OK")
    ELSE IF n # 0 THEN Result([S EXCEPT !.d[d].num_times_opened = n], "OK")
    ELSE IF S.d[d].parent # -1
    THEN Result(Fault([S EXCEPT !.d = free_dentry(@, d)], "use_after_free", ub),
                IF ub = "crash" THEN "ABORT" ELSE "OK")
    ELSE Result([S EXCEPT !.d = free_dentry(@, d)], "OK")

\* wimfs_rmdir.
wimfs_rmdir(S, path) ==
    LET targets == get_dentry(S.d, path) \cap Dentries IN
    {IF dentry = 0 THEN Result(S, "ENOENT")
     ELSE IF ~dentry_is_empty_directory(S.d, dentry) THEN Result(S, "ENOTEMPTY")
     ELSE Result([S EXCEPT !.d = IF @[dentry].num_times_opened = 0
                                 THEN free_dentry(unlink_dentry(@, dentry), dentry)
                                 ELSE unlink_dentry(@, dentry)], "OK")
     : dentry \in (IF targets = {} THEN {0} ELSE targets)}

\* dentry_set_symlink: the link target becomes the primary stream of the
\* dentry, an entry of the lookup table under the SHA-1 of its contents.
\* fail = "nomem" is a failing allocation.
dentry_set_symlink(S, c, to, fail) ==
    LET \* the stream a symbolic link to `to` holds
        SymlinkBuffer == <<3>>
        hash == sha1sum(SymlinkBuffer)
        e == __lookup_resource(S.l, hash)
        n == NewLte(S.l)
    IN
    IF fail = "nomem" THEN Result(S, "ENOMEM")
    ELSE IF e # 0
    THEN Result([S EXCEPT !.l[e].refcnt = @ + 1, !.d[c].hash = hash], "OK")
    ELSE IF n = 0 THEN Result(S, "BOUND")
    ELSE Result([S EXCEPT !.l[n] = [FreeLte EXCEPT
                                       !.live = TRUE, !.hash = hash, !.refcnt = 1,
                                       !.res = SymlinkBuffer,
                                       !.original_size = Len(SymlinkBuffer)],
                          !.d[c].hash = hash], "OK")

\* wimfs_symlink(to, from): from becomes a symbolic link to `to`.
wimfs_symlink(S, to, from, fail) ==
    LET c == NewDentry(S.d)
        parents == get_parent_dentry(S.d, from)
        Linked(r, parent) ==
            IF r.err = "BOUND" THEN Result(S, "BOUND")
            ELSE IF r.err # "OK" THEN Result(S, "ENOMEM")
            ELSE Result([r.S EXCEPT !.d = link_dentry(@, c, parent)], "OK")
    IN
    {IF parent = -1 THEN Result(S, "ENOENT")
     ELSE IF ~dentry_is_directory(S.d, parent) THEN Result(S, "ENOTDIR")
     ELSE IF get_dentry_child_with_name(S.d, parent, path_basename(from)) # {}
     THEN Result(S, "EEXIST")
     ELSE IF c = 0 THEN Result(S, "BOUND")
     ELSE Linked(dentry_set_symlink(
                     [S EXCEPT !.d = [new_dentry(@, c, path_basename(from))
                                         EXCEPT ![c].reparse = TRUE]],
                     c, to, fail), parent)
     : parent \in (IF parents = {} THEN {-1} ELSE parents)}

(* ----------------------------- commit ---------------------------------- *)
\* The library's error codes: an enumeration from 0 (success).  Only their
\* being distinct, non-zero and below 128 is used.
wimlib_error_code ==
    [SUCCESS |-> 0, DELETE_STAGING_DIR |-> 3, FORK |-> 4, FUSERMOUNT |-> 6,
     MQUEUE |-> 20, NOMEM |-> 21, NOTDIR |-> 22, OPEN |-> 25, TIMEOUT |-> 36,
     WRITE |-> 40]

\* The descriptors close_lte_fds closes on one entry: it looks at the slots
\* below num_opened_fds.
LteFdsToClose(S, e) ==
    {S.l[e].fds[i] : i \in {j \in 1..Min(S.l[e].num_opened_fds, Len(S.l[e].fds)) :
                              /\ S.l[e].fds[j] # 0
                              /\ S.h[S.l[e].fds[j]].staging_fd # -1}}

\* for_lookup_table_entry(w->lookup_table, close_lte_fds, NULL).  fail =
\* "close" is a failing close(2).
close_all_lte_fds(S, fail) ==
    LET closing == UNION {LteFdsToClose(S, e) : e \in {x \in Ltes : S.l[x].live}} IN
    IF closing # {} /\ fail = "close"
    THEN [S |-> S, ret |-> wimlib_error_code.WRITE]
    ELSE [S |-> [S EXCEPT !.h = [x \in Fds |->
                                   IF x \in closing THEN [@[x] EXCEPT !.os_closed = TRUE]
                                   ELSE @[x]]],
          ret |-> 0]

\* calculate_sha1sum_for_staging_file, from the stream in `slot` on.  fail =
\* "sha1" is a failing sha1sum.
RECURSIVE calculate_sha1sum_for_staging_file(_, _, _, _)
calculate_sha1sum_for_staging_file(S, d, slot, fail) ==
    IF slot > Len(S.d[d].ads) THEN [S |-> S, ret |-> 0]
    ELSE LET lte == __lookup_resource(S.l, HashAt(S.d, d, slot))
             f == S.l[lte].staging_file_name
             hash == sha1sum(S.f[f].content)
             \* the table without lte, searched for the new hash
             existing == __lookup_resource([S.l EXCEPT ![lte].live = FALSE], hash)
             S1 == [S EXCEPT !.d = SetHashAt(@, d, slot, hash)]
             S2 == IF existing # 0
                   THEN [free_lookup_table_entry(S1, lte) EXCEPT
                            !.l[existing].refcnt = @ + 1]
                   ELSE [S1 EXCEPT !.l[lte].hash = hash]
         IN IF lte # 0 /\ f # 0
            THEN IF ~S.f[f].present \/ fail = "sha1"
                 THEN [S |-> S, ret |-> wimlib_error_code.OPEN]
                 ELSE calculate_sha1sum_for_staging_file(S2, d, slot + 1, fail)
            ELSE calculate_sha1sum_for_staging_file(S, d, slot + 1, fail)

\* The dentries for_dentry_in_tree visits below the root.
RECURSIVE InTree(_, _)
InTree(D, d) ==
    d = 0 \/ (d \in Dentries /\ D[d].live /\ D[d].parent # -1 /\ D[d].parent # d
              /\ InTree([D EXCEPT ![d].parent = -1], D[d].parent))

TreeDentries(D) == {d \in Dentries : InTree(D, d)}

RECURSIVE Orders(_)
Orders(set) ==
    IF set = {} THEN {<<>>}
    ELSE UNION {{<<x>> \o o : o \in Orders(set \ {x})} : x \in set}

\* for_dentry_in_tree(root, calculate_sha1sum_for_staging_file, table),
\* visiting the dentries in `order`; it stops at the first failure.
RECURSIVE for_dentry_in_tree_sha1(_, _, _)
for_dentry_in_tree_sha1(S, order, fail) ==
    LET Visited(r) == IF r.ret # 0 THEN r
                      ELSE for_dentry_in_tree_sha1(r.S, Tail(order), fail)
    IN IF order = <<>> THEN [S |-> S, ret |-> 0]
       ELSE Visited(calculate_sha1sum_for_staging_file(S, Head(order), 0, fail))

\* rebuild_wim.  fail = "overwrite" is a failing wimlib_overwrite.
rebuild_wim(S, order, fail) ==
    LET Hashed(r2) ==
            IF r2.ret # 0 THEN r2 @@ [stage |-> "sha1"]
            ELSE IF fail = "overwrite"
            THEN [S |-> r2.S, ret |-> wimlib_error_code.WRITE, stage |-> "overwrite"]
            ELSE [S |-> r2.S, ret |-> 0, stage |-> "done"]
        FdsClosed(r1) ==
            IF r1.ret # 0 THEN [S |-> S, ret |-> r1.ret, stage |-> "close"]
            ELSE Hashed(for_dentry_in_tree_sha1(r1.S, order, fail))
    IN FdsClosed(close_all_lte_fds(S, fail))

\* delete_staging_dir: nftw over the staging directory.  fail = "nftw" is a
\* failing remove(3); staging_dir_name is cleared either way.
delete_staging_dir(S, fail) ==
    IF fail = "nftw"
    THEN [S |-> S, ret |-> wimlib_error_code.DELETE_STAGING_DIR, exists |-> TRUE]
    ELSE [S |-> [S EXCEPT !.f = [f \in Files |-> [@[f] EXCEPT !.present = FALSE]]],
          ret |-> 0, exists |-> FALSE]

\* A value stored in a char.
Char(v) == v % 256

status_after_delete_overwritten(status, rc) == Char(rc)

\* The status wimfs_destroy keeps after delete_staging_dir returned rc.
status_after_delete(status, rc) == IF rc # 0 /\ status = 0 THEN Char(rc) ELSE status

\* wimfs_destroy from `status = 0` to the label done (lines 752-771), with
\* the commit flag it took from the message buffer.  fail = "chdir" is a
\* failing chdir(2).  The result tells how far the commit pipeline got.
wimfs_destroy_commit(S, mf, commit, order, fail) ==
    LET \* ret = delete_staging_dir(); if (ret != 0 && !status) status = ret
        Deleted(del, status, stage) ==
            [S |-> del.S, status |-> status_after_delete(status, del.ret),
             stage |-> stage, deleted |-> TRUE, exists |-> del.exists]
        \* status = rebuild_wim(w, (check_integrity != 0))
        Rebuilt(rb) == Deleted(delete_staging_dir(rb.S, fail), Char(rb.ret), rb.stage)
    IN
    IF ~mf.rw
    THEN [S |-> S, status |-> 0, stage |-> "none", deleted |-> FALSE,
          exists |-> FALSE]
    ELSE IF commit # 0 /\ fail = "chdir"
    THEN [S |-> S, status |-> Char(wimlib_error_code.NOTDIR), stage |-> "chdir",
          deleted |-> FALSE, exists |-> TRUE]
    ELSE IF commit # 0 THEN Rebuilt(rebuild_wim(S, order, fail))
    ELSE Deleted(delete_staging_dir(S, fail), 0, "none")

(* ----------------------------- initial states -------------------------- *)
\* The stream the mounted image's files hold.
ImageContent == <<1, 1>>

ImageDentry(name, hash, group) ==
    [FreeDentry EXCEPT !.live = TRUE, !.parent = 0, !.name = name,
                       !.hash = hash, !.hard_link = group]

ImageLte(content, refcnt) ==
    [FreeLte EXCEPT !.live = TRUE, !.hash = sha1sum(content), !.refcnt = refcnt,
                    !.res = content, !.original_size = Len(content)]

\* An image as the archive catalog loader hands it over: the dentries in
\* the first slots, the one lookup table entry their streams share.
Image(ds) ==
    [d |-> [c \in Dentries |-> IF c <= Len(ds) THEN ds[c] ELSE FreeDentry],
     l |-> [e \in Ltes |->
              IF e = 1 /\ \E c \in 1..Len(ds) : ds[c].hash # ZeroHash
              THEN ImageLte(ImageContent,
                            Cardinality({c \in 1..Len(ds) : ds[c].hash # ZeroHash}))
              ELSE FreeLte]]

\* The images mounted: /a and /b are two files with equal contents (one
\* lookup table entry, two hard link groups); /a alone; /a is empty (no
\* lookup table entry).
ImageAB ==
    Image(<<ImageDentry("a", sha1sum(ImageContent), 1),
            ImageDentry("b", sha1sum(ImageContent), 2)>>)

ImageA == Image(<<ImageDentry("a", sha1sum(ImageContent), 1)>>)

ImageEmpty == Image(<<ImageDentry("a", ZeroHash, 1)>>)

Images == {ImageAB, ImageA, ImageEmpty}

\* The state record of a freshly mounted image.
Mounted(image) ==
    [d |-> image.d, l |-> image.l, h |-> [x \in Fds |-> FreeFd],
     f |-> [f \in Files |-> FreeFile], fault |-> "none", crashed |-> FALSE,
     freed |-> {}]

InitMq == [names |-> [u2d |-> 0, d2u |-> 0], queues |-> <<>>]

\* wimlib_unmount before it is called.
InitDriver ==
    [pc |-> "idle", unmounted |-> FALSE, flags |-> <<0, 0>>, u2d |-> 0, d2u |-> 0,
     opened |-> FALSE,
     sent |-> <<>>, mailbox |-> 0, received |-> FALSE, timedout |-> FALSE,
     ret |-> 0]

\* wimfs_destroy before it is called.
InitDd ==
    [u2d |-> 0, d2u |-> 0, msg |-> <<0, 0>>, bytes_received |-> 0, status |-> 0,
     stage |-> "none", deleted |-> FALSE, sent |-> FALSE]

InitFs(S, image, n, mutated) ==
    /\ dentries = S.d
    /\ ltes = S.l
    /\ fds = S.h
    /\ files = S.f
    /\ ret = [op |-> "mount", err |-> "OK", data |-> <<>>]
    /\ fault = "none"
    /\ freed = {}
    /\ nops = n
    /\ hist = [image |-> image, mutated |-> mutated]

InitProcesses ==
    /\ daemon = "mounted"
    /\ mq = InitMq
    /\ driver = InitDriver
    /\ dd = InitDd

Init ==
    /\ \E image \in Images : InitFs(Mounted(image), image, 0, FALSE)
    /\ mount_flags = [rw |-> TRUE, windows |-> FALSE]
    /\ staging_dir = [name |-> TRUE, exists |-> TRUE]
    /\ InitProcesses

(* ----------------------------- actions --------------------------------- *)
\* The results of a callback over the outcomes of a fault in it: one
\* result when it runs into none.
Outcomes(F) ==
    IF F["crash"].S.fault = "none" THEN {F["crash"]} ELSE {F[ub] : ub \in UBOutcomes}

\* The state after a callback returned r.  nops counts the callbacks that
\* changed the filesystem state.
Apply(op, mutating, r) ==
    /\ r.err # "BOUND"
    /\ dentries' = r.S.d
    /\ ltes' = r.S.l
    /\ fds' = r.S.h
    /\ files' = r.S.f
    /\ fault' = r.S.fault
    /\ freed' = r.S.freed
    /\ hist' = [hist EXCEPT !.mutated = @ \/ mutating]
    /\ daemon' = IF r.S.crashed THEN "crashed" ELSE daemon
    /\ ret' = [op |-> op, err |-> r.err, data |-> r.data]
    /\ nops' = IF <<r.S.d, r.S.l, r.S.h, r.S.f>> = fsvars THEN nops ELSE nops + 1
    /\ UNCHANGED <<mount_flags, staging_dir, mq, driver, dd>>

Dispatch == daemon = "mounted" /\ nops < MaxOps

Paths == {<<n>> : n \in Names}

\* The system calls and allocations of a callback all succeed.
NoFail == {"none"}

Open(streams, fails) ==
    /\ Dispatch
    /\ \E path \in Paths, stream \in streams, writable \in BOOLEAN, fail \in fails :
       \E lr \in lookup_resource(dentries, mount_flags, path, stream) :
       \E r \in Outcomes([ub \in UBOutcomes |-> wimfs_open(Cur, mount_flags, lr, writable, fail, ub)]) :
          Apply("open", writable, r)

Release(fails) ==
    /\ Dispatch
    /\ \E x \in Fds, fail \in fails :
          /\ fds[x].used /\ fds[x].fh
          /\ \E r \in Outcomes([ub \in UBOutcomes |-> wimfs_release(Cur, x, ub, fail)]) :
                Apply("release", FALSE, r)

Read(fails) ==
    /\ Dispatch
    /\ \E x \in Fds, fail \in fails :
          /\ fds[x].used /\ fds[x].fh
          /\ \E r \in Outcomes([ub \in UBOutcomes |-> wimfs_read(Cur, x, MaxLen, 0, fail, ub)]) :
                Apply("read", FALSE, r)

Write ==
    /\ Dispatch
    /\ \E x \in Fds :
          /\ fds[x].used /\ fds[x].fh /\ fds[x].writable
          /\ fds[x].pos < MaxLen
          /\ \E r \in Outcomes([ub \in UBOutcomes |-> wimfs_write(Cur, x, <<2>>, ub)]) :
                Apply("write", TRUE, r)

Truncate(fails) ==
    /\ Dispatch
    /\ \E path \in Paths, size \in 0..MaxLen, fail \in fails :
       \E lr \in lookup_resource(dentries, mount_flags, path, "") :
       \E r \in Outcomes([ub \in UBOutcomes |-> wimfs_truncate(Cur, mount_flags, lr, size, fail, ub)]) :
          Apply("truncate", TRUE, r)

Link(paths) ==
    /\ Dispatch
    /\ \E to \in paths, from \in paths :
       \E r \in wimfs_link(Cur, to, from) : Apply("link", TRUE, r)

Mknod(paths, streams) ==
    /\ Dispatch
    /\ \E path \in paths, stream \in streams :
       \E r \in wimfs_mknod(Cur, mount_flags, path, stream) : Apply("mknod", TRUE, r)

Unlink(paths, streams, fails) ==
    /\ Dispatch
    /\ \E path \in paths, stream \in streams, fail \in fails :
       \E lr \in lookup_resource(dentries, mount_flags, path, stream) :
          Apply("unlink", TRUE, wimfs_unlink(Cur, mount_flags, lr, fail))

\* The kernel refuses to move a directory below itself before the request
\* reaches the callback.
Rename(paths) ==
    /\ Dispatch
    /\ \E from \in paths, to \in paths :
          /\ ~(Len(from) < Len(to) /\ SubSeq(to, 1, Len(from)) = from)
          /\ \E r \in wimfs_rename(Cur, from, to) : Apply("rename", TRUE, r)

\* The paths of the directory callbacks: a name, or a name in a directory.
DirPaths == Paths \cup {<<m, n>> : m \in Names, n \in Names}

Mkdir ==
    /\ Dispatch
    /\ \E path \in DirPaths :
       \E r \in wimfs_mkdir(Cur, path) : Apply("mkdir", TRUE, r)

Rmdir ==
    /\ Dispatch
    /\ \E path \in DirPaths :
       \E r \in wimfs_rmdir(Cur, path) : Apply("rmdir", TRUE, r)

Opendir ==
    /\ Dispatch
    /\ \E path \in DirPaths :
       \E r \in wimfs_opendir(Cur, path) : Apply("opendir", FALSE, r)

\* A directory handle is released once for each time it was opened.
Releasedir ==
    /\ Dispatch
    /\ \E d \in Dentries :
          /\ dentries[d].live /\ dentries[d].num_times_opened > 0
          /\ \E r \in Outcomes([ub \in UBOutcomes |-> wimfs_releasedir(Cur, d, ub)]) :
                Apply("releasedir", FALSE, r)

Symlink(fails) ==
    /\ Dispatch
    /\ \E to \in Paths, from \in DirPaths, fail \in fails :
       \E r \in wimfs_symlink(Cur, to, from, fail) : Apply("symlink", TRUE, r)

(* ----------------------------- message queues -------------------------- *)
\* mq_open(name, O_CREAT | ...): the queue the name stands for, created if
\* there is none.
mq_open(M, name) ==
    IF M.names[name] # 0 THEN [M |-> M, q |-> M.names[name]]
    ELSE [M |-> [names |-> [M.names EXCEPT ![name] = Len(M.queues) + 1],
                 queues |-> Append(M.queues, <<>>)],
          q |-> Len(M.queues) + 1]

mq_unlink(M, name) == [M EXCEPT !.names[name] = 0]

mq_send(M, q, msg) == [M EXCEPT !.queues[q] = Append(@, msg)]

\* open_message_queues, for either process.  fail is "nomem" (strcat_dup),
\* "mq_open_u2d" or "mq_open_d2u".
open_message_queues(M, fail) ==
    LET o1 == mq_open(M, "u2d")
        o2 == mq_open(o1.M, "d2u")
    IN
    IF fail = "nomem"
    THEN [M |-> M, ret |-> wimlib_error_code.NOMEM, u2d |-> 0, d2u |-> 0]
    ELSE IF fail = "mq_open_u2d"
    THEN [M |-> M, ret |-> wimlib_error_code.MQUEUE, u2d |-> 0, d2u |-> 0]
    ELSE IF fail = "mq_open_d2u"
    THEN [M |-> mq_unlink(o1.M, "u2d"), ret |-> wimlib_error_code.MQUEUE,
          u2d |-> 0, d2u |-> 0]
    ELSE [M |-> o2.M, ret |-> 0, u2d |-> o1.q, d2u |-> o2.q]

\* close_message_queues: both descriptors closed, both names unlinked.
close_message_queues(M) == mq_unlink(mq_unlink(M, "u2d"), "d2u")

\* The descriptors of a process after close_message_queues.
Closed(d) == [d EXCEPT !.u2d = 0, !.d2u = 0]

(* ----------------------------- wimfs_destroy --------------------------- *)
\* Lines 752-771 of wimfs_destroy applied to the current state, the daemon
\* going on to `next`.
DestroyCommitStep(msg, order, fail, next) ==
    LET Done(r) ==
            /\ dentries' = r.S.d
            /\ ltes' = r.S.l
            /\ fds' = r.S.h
            /\ files' = r.S.f
            /\ freed' = r.S.freed
            /\ fault' = "none"
            /\ staging_dir' = IF r.deleted THEN [name |-> FALSE, exists |-> r.exists]
                              ELSE staging_dir
            /\ dd' = [dd EXCEPT !.msg = msg, !.status = r.status, !.stage = r.stage,
                                !.deleted = r.deleted]
            /\ ret' = [op |-> "destroy", err |-> "OK", data |-> <<>>]
            /\ daemon' = next
            /\ UNCHANGED <<mount_flags, nops, hist>>
    IN Done(wimfs_destroy_commit(Cur, mount_flags, msg[1], order, fail))

\* The failures of the commit pipeline.
CommitFails == {"none", "chdir", "close", "sha1", "overwrite", "nftw"}

\* The messages wimfs_destroy can find in msg after the receive: the
\* zeroed buffer (timeout, or commit not asked for) and a commit request.
DestroyMsgs == {<<0, 0>>, <<1, 0>>}

\* wimfs_destroy as the filesystem callbacks see it: the unmount ends the
\* session with whichever message the handshake delivered.
Destroy(fails) ==
    /\ daemon = "mounted"
    /\ \E msg \in DestroyMsgs, fail \in fails, order \in Orders(TreeDentries(dentries)) :
          DestroyCommitStep(msg, order, fail, "exited")
    /\ UNCHANGED <<mq, driver>>

\* The unmount handshake, wimfs_destroy taken one blocking call at a time.
\* fusermount -u makes the daemon enter wimfs_destroy.
DestroyOpen(fails) ==
    /\ daemon = "destroy_open"
    /\ \E fail \in fails :
          LET r == open_message_queues(mq, fail) IN
          /\ mq' = r.M
          /\ dd' = [dd EXCEPT !.u2d = r.u2d, !.d2u = r.d2u]
          \* exit(1) when the queues cannot be opened
          /\ daemon' = IF r.ret # 0 THEN "exited" ELSE "destroy_recv"
    /\ UNCHANGED <<fsvars, mount_flags, staging_dir, ret, fault, nops, freed, hist,
                   driver>>

\* mq_timedreceive returns the driver's message.
DestroyReceive ==
    /\ daemon = "destroy_recv"
    /\ mq.queues[dd.u2d] # <<>>
    /\ dd' = [dd EXCEPT !.msg = Head(mq.queues[dd.u2d]),
                        !.bytes_received = Len(Head(mq.queues[dd.u2d]))]
    /\ mq' = [mq EXCEPT !.queues[dd.u2d] = Tail(@)]
    /\ daemon' = "destroy_commit"
    /\ UNCHANGED <<fsvars, mount_flags, staging_dir, ret, fault, nops, freed, hist,
                   driver>>

\* mq_timedreceive times out after 3 seconds: msg stays zeroed.
DestroyTimeout ==
    /\ daemon = "destroy_recv"
    /\ mq.queues[dd.u2d] = <<>>
    /\ dd' = [dd EXCEPT !.bytes_received = -1]
    /\ daemon' = "destroy_commit"
    /\ UNCHANGED <<fsvars, mount_flags, staging_dir, ret, fault, nops, freed, hist,
                   mq, driver>>

DestroyCommit(fails) ==
    /\ daemon = "destroy_commit"
    /\ \E fail \in fails, order \in Orders(TreeDentries(dentries)) :
          DestroyCommitStep(dd.msg, order, fail, "destroy_reply")
    /\ UNCHANGED <<mq, driver>>

\* done: mq_send(daemon_to_unmount_mq, &status, 1, 1), then
\* close_message_queues.  fail = "mq_send" is a failing mq_send.
DestroyReply(fails) ==
    /\ daemon = "destroy_reply"
    /\ \E fail \in fails :
          /\ mq' = close_message_queues(IF fail = "mq_send" THEN mq
                                        ELSE mq_send(mq, dd.d2u, <<dd.status>>))
          /\ dd' = [Closed(dd) EXCEPT !.sent = fail # "mq_send"]
    /\ daemon' = "exited"
    /\ UNCHANGED <<fsvars, mount_flags, staging_dir, ret, fault, nops, freed, hist,
                   driver>>

(* ----------------------------- wimlib_unmount -------------------------- *)
Return(d, code) == [d EXCEPT !.pc = "done", !.ret = code]

unmount_timeout_ret_verdict == wimlib_error_code.SUCCESS

\* What wimlib_unmount returns when the timed receive timed out.
unmount_timeout_ret == wimlib_error_code.TIMEOUT

\* wimlib_unmount(dir, flags) up to the end of fusermount -u.  fail is
\* "fork" or "fusermount".
UnmountStart(fails) ==
    /\ driver.pc = "idle"
    /\ daemon = "mounted"
    /\ \E commit \in 0..1, check_integrity \in 0..1, fail \in fails :
          /\ driver' = IF fail = "fork" THEN Return(driver, wimlib_error_code.FORK)
                       ELSE IF fail = "fusermount"
                       THEN Return(driver, wimlib_error_code.FUSERMOUNT)
                       ELSE [driver EXCEPT !.pc = "open", !.unmounted = TRUE,
                                           !.flags = <<commit, check_integrity>>]
          /\ daemon' = IF fail \in {"fork", "fusermount"} THEN daemon ELSE "destroy_open"
    /\ UNCHANGED <<fsvars, mount_flags, staging_dir, ret, fault, nops, freed, hist,
                   mq, dd>>

UnmountOpen(fails) ==
    /\ driver.pc = "open"
    /\ \E fail \in fails :
          LET r == open_message_queues(mq, fail) IN
          /\ mq' = r.M
          /\ driver' = IF r.ret # 0 THEN Return(driver, r.ret)
                       ELSE [driver EXCEPT !.pc = "send", !.u2d = r.u2d, !.d2u = r.d2u,
                                           !.opened = TRUE]
    /\ UNCHANGED <<fsvars, mount_flags, staging_dir, ret, fault, nops, freed, hist,
                   daemon, dd>>

\* mq_send(unmount_to_daemon_mq, msg, 2, 1).
UnmountSend(fails) ==
    /\ driver.pc = "send"
    /\ \E fail \in fails :
          IF fail = "mq_send"
          THEN /\ mq' = close_message_queues(mq)
               /\ driver' = Return(Closed(driver), wimlib_error_code.MQUEUE)
          ELSE /\ mq' = mq_send(mq, driver.u2d, driver.flags)
               /\ driver' = [driver EXCEPT !.pc = "recv", !.sent = Append(@, driver.flags)]
    /\ UNCHANGED <<fsvars, mount_flags, staging_dir, ret, fault, nops, freed, hist,
                   daemon, dd>>

\* mq_timedreceive returns the daemon's status byte.
UnmountReceive ==
    /\ driver.pc = "recv"
    /\ mq.queues[driver.d2u] # <<>>
    /\ mq' = close_message_queues([mq EXCEPT !.queues[driver.d2u] = Tail(@)])
    /\ driver' = [Return(Closed(driver), Head(mq.queues[driver.d2u])[1])
                    EXCEPT !.mailbox = Head(mq.queues[driver.d2u])[1],
                           !.received = TRUE]
    /\ UNCHANGED <<fsvars, mount_flags, staging_dir, ret, fault, nops, freed, hist,
                   daemon, dd>>

\* mq_timedreceive times out after 600 seconds.
UnmountTimeout ==
    /\ driver.pc = "recv"
    /\ mq.queues[driver.d2u] = <<>>
    /\ mq' = close_message_queues(mq)
    /\ driver' = [Return(Closed(driver), unmount_timeout_ret) EXCEPT !.timedout = TRUE]
    /\ UNCHANGED <<fsvars, mount_flags, staging_dir, ret, fault, nops, freed, hist,
                   daemon, dd>>

Next ==
    \/ Open({""}, NoFail)
    \/ Release(NoFail)
    \/ Read(NoFail)
    \/ Write
    \/ Truncate(NoFail)
    \/ Link(Paths)
    \/ Mknod(Paths, {""})
    \/ Unlink(Paths, {""}, NoFail)
    \/ Rename(Paths)
    \/ Destroy(NoFail)

Spec == Init /\ [][Next]_vars

(* ----------------------------- directories alone ----------------------- *)
\* /a is a directory holding the file /a/b; /b is a file with the same
\* contents.
ImageDir ==
    Image(<<[ImageDentry("a", ZeroHash, 1) EXCEPT !.dir = TRUE],
            [ImageDentry("b", sha1sum(ImageContent), 2) EXCEPT !.parent = 1],
            ImageDentry("b", sha1sum(ImageContent), 3)>>)

\* /a is an empty directory.
ImageEmptyDir == Image(<<[ImageDentry("a", ZeroHash, 1) EXCEPT !.dir = TRUE]>>)

InitDirs ==
    /\ \E image \in {ImageDir, ImageEmptyDir} : InitFs(Mounted(image), image, 0, FALSE)
    /\ mount_flags = [rw |-> TRUE, windows |-> FALSE]
    /\ staging_dir = [name |-> TRUE, exists |-> TRUE]
    /\ InitProcesses

NextDirs ==
    \/ Mkdir
    \/ Rmdir
    \/ Opendir
    \/ Releasedir
    \/ Symlink({"none", "nomem"})
    \/ Mknod(DirPaths, {""})
    \/ Link(DirPaths)
    \/ Unlink(DirPaths, {""}, NoFail)
    \/ Rename(DirPaths)

SpecDirs == InitDirs /\ [][NextDirs]_vars

(* ----------------------------- named streams alone --------------------- *)
\* The stream names of the paths: none, or ":s".
StreamNames == {"", "s"}

\* /a and /b are two files with equal contents; /a has the alternate data
\* stream "s", with contents and a lookup table entry of its own.
ImageAds ==
    LET image == Image(<<[ImageDentry("a", sha1sum(ImageContent), 1)
                             EXCEPT !.ads = <<[name |-> "s", hash |-> sha1sum(<<2>>)]>>],
                         ImageDentry("b", sha1sum(ImageContent), 2)>>)
    IN [image EXCEPT !.l[2] = ImageLte(<<2>>, 1)]

\* /a and /b are two files with equal contents, which the alternate data
\* stream "s" of /a holds too: one lookup table entry with three references.
ImageAdsShared ==
    LET image == Image(<<[ImageDentry("a", sha1sum(ImageContent), 1)
                             EXCEPT !.ads = <<[name |-> "s", hash |-> sha1sum(ImageContent)]>>],
                         ImageDentry("b", sha1sum(ImageContent), 2)>>)
    IN [image EXCEPT !.l[1].refcnt = 3]

\* A read-write mount with the Windows stream interface.
InitStreams ==
    /\ \E image \in {ImageAds, ImageAdsShared, ImageA} : InitFs(Mounted(image), image, 0, FALSE)
    /\ mount_flags = [rw |-> TRUE, windows |-> TRUE]
    /\ staging_dir = [name |-> TRUE, exists |-> TRUE]
    /\ InitProcesses

NextStreams ==
    \/ Open(StreamNames, NoFail)
    \/ Release(NoFail)
    \/ Write
    \/ Link(Paths)
    \/ Mknod(Paths, StreamNames)
    \/ Unlink(Paths, StreamNames, NoFail)

SpecStreams == InitStreams /\ [][NextStreams]_vars

(* ----------------------------- failing system calls -------------------- *)
\* The steps of extract_resource_to_staging_dir that can fail.
ExtractFails == {"none", "create", "extract", "close", "nomem"}

\* The steps of wimfs_open that can fail.
OpenFails == ExtractFails \cup {"nomem_fd", "open"}

NextFail ==
    \/ Open({""}, OpenFails)
    \/ Release(NoFail)
    \/ Read(NoFail)
    \/ Truncate(ExtractFails)
    \/ Link(Paths)

SpecFail == Init /\ [][NextFail]_vars

(* ----------------------------- the fd table alone ---------------------- *)
\* A slot held by one of the many handles this specification does not
\* follow one by one: alloc_wimlib_fd and close_wimlib_fd look at another
\* handle's slot only to see that it is not NULL.
OtherFd == MaxFds + 1

\* Table sizes from the empty table to the largest.
AllocSizes == {0, 1, fds_per_alloc, max_fds - fds_per_alloc,
               max_fds - fds_per_alloc + 1, max_fds - 1, max_fds}

\* /a of ImageA with n slots in the fd table of its entry, all of them in
\* use but those in `holes`.
ManyOpens(n, holes) ==
    [Mounted(ImageA) EXCEPT
        !.l[1].fds = <<>> \o [i \in 1..n |-> IF i \in holes THEN 0 ELSE OtherFd],
        !.l[1].num_allocated_fds = n,
        !.l[1].num_opened_fds = n - Cardinality(holes)]

InitAlloc ==
    /\ \E n \in AllocSizes : \E holes \in SUBSET ({1, 3, n} \cap 1..n) :
          InitFs(ManyOpens(n, holes), ImageA, 0, FALSE)
    /\ mount_flags = [rw |-> TRUE, windows |-> FALSE]
    /\ staging_dir = [name |-> TRUE, exists |-> TRUE]
    /\ InitProcesses

\* alloc_wimlib_fd on a live entry, as wimfs_open calls it.
AllocFd ==
    /\ Dispatch
    /\ \E e \in Ltes :
          /\ ltes[e].live
          /\ \E r \in {alloc_wimlib_fd(Cur, e, "none")} :
                Apply("alloc_wimlib_fd", FALSE, r)

\* close_wimlib_fd on a handle, as wimfs_release calls it.
CloseFd ==
    /\ Dispatch
    /\ \E x \in Fds :
          /\ fds[x].used
          /\ \E r \in Outcomes([ub \in UBOutcomes |-> close_wimlib_fd(Cur, x, ub, "none")]) :
                Apply("close_wimlib_fd", FALSE, r)

NextAlloc ==
    \/ AllocFd
    \/ CloseFd

SpecAlloc == InitAlloc /\ [][NextAlloc]_vars

(* ----------------------------- the unmount alone ----------------------- *)
\* /a of ImageA opened for writing and written to, the handle still open.
WrittenSession ==
    LET o == wimfs_open(Mounted(ImageA), [rw |-> TRUE, windows |-> FALSE],
                        [err |-> "OK", dentry |-> 1, slot |-> 0], TRUE, "none", "crash")
    IN wimfs_write(o.S, o.fd, <<2>>, "crash").S

\* The sessions an unmount ends: nothing done on ImageAB, and
\* WrittenSession.
Sessions ==
    {[S |-> Mounted(ImageAB), image |-> ImageAB, nops |-> 0, mutated |-> FALSE],
     [S |-> WrittenSession, image |-> ImageA, nops |-> 2, mutated |-> TRUE]}

InitUnmount ==
    /\ \E s \in Sessions, rw \in BOOLEAN :
          /\ rw \/ ~s.mutated
          /\ InitFs(s.S, s.image, s.nops, s.mutated)
          /\ mount_flags = [rw |-> rw, windows |-> FALSE]
          /\ staging_dir = [name |-> rw, exists |-> rw]
    /\ InitProcesses

StartFails == {"none", "fork", "fusermount"}
QueueFails == {"none", "nomem", "mq_open_u2d", "mq_open_d2u"}
SendFails == {"none", "mq_send"}

NextUnmount ==
    \/ UnmountStart(StartFails)
    \/ UnmountOpen(QueueFails)
    \/ UnmountSend(SendFails)
    \/ UnmountReceive
    \/ UnmountTimeout
    \/ DestroyOpen(QueueFails)
    \/ DestroyReceive
    \/ DestroyTimeout
    \/ DestroyCommit(CommitFails)
    \/ DestroyReply(SendFails)

SpecUnmount == InitUnmount /\ [][NextUnmount]_vars

\* The driver is a running process: each of its calls returns, the timed
\* receive within its 600 seconds.
DriverStep ==
    \/ UnmountOpen(QueueFails)
    \/ UnmountSend(SendFails)
    \/ UnmountReceive
    \/ UnmountTimeout

SpecUnmountFair ==
    /\ SpecUnmount
    /\ WF_vars(UnmountStart(StartFails))
    /\ WF_vars(DriverStep)

(* ----------------------------- properties ------------------------------ *)
\* The dentries in the tree and their stream slots.
StreamRefs(D) ==
    {p \in Dentries \X (0..MaxDentries) :
        p[1] \in TreeDentries(D) /\ p[2] \in Slots(D, p[1])}

\* The streams of the tree whose stored hash is `hash`.
RefsTo(D, hash) == {p \in StreamRefs(D) : HashAt(D, p[1], p[2]) = hash}

\* What a read of the first MaxLen bytes on an open handle returns now.
ReadOfHandle(x) ==
    LET r == wimfs_read(Cur, x, MaxLen, 0, "none", "continue")
    IN [err |-> r.err, data |-> r.data]

\* What opening the file of dentry d read-only and reading its first
\* MaxLen bytes returns now.
ReadOfDentry(d) ==
    LET o == wimfs_open(Cur, mount_flags, [err |-> "OK", dentry |-> d, slot |-> 0],
                        FALSE, "none", "continue")
        r == wimfs_read(o.S, o.fd, MaxLen, 0, "none", "continue")
    IN IF o.err # "OK" THEN [err |-> o.err, data |-> <<>>]
       ELSE [err |-> r.err, data |-> r.data]

\* The contents a stream of the mounted image had.
ImageStream(d) ==
    LET e == __lookup_resource(hist.image.l, hist.image.d[d].hash)
    IN IF e = 0 THEN <<>> ELSE hist.image.l[e].res

\* C1: after every completed filesystem operation on a read-write mount,
\* the refcnt of every lookup table entry in the catalog is the number of
\* (dentry, stream) pairs of the tree whose stored hash is the entry's hash.
C1_RefcntInvariant ==
    daemon = "mounted" =>
        \A e \in Ltes :
            ltes[e].live => ltes[e].refcnt = Cardinality(RefsTo(dentries, ltes[e].hash))

\* C2: where A was archive-backed with content X and B is a hard link made
\* of A while it was (B carries the hash A had in the image), once A has
\* been opened for writing and written to, a read of B returns X, a read
\* of A returns the staged contents, and the catalog holds two distinct
\* entries: a staged one reached from A, an archive-backed one reached
\* from B.
C2_HardLinkDivergence ==
    \A x \in Fds, b \in Dentries :
        LET a == fds[x].dentry
            ea == __lookup_resource(ltes, dentries[a].hash)
            eb == __lookup_resource(ltes, dentries[b].hash)
        IN
        (/\ daemon = "mounted" /\ ret.op = "write" /\ ret.err = "OK"
         /\ fds[x].used /\ fds[x].fh /\ fds[x].writable /\ fds[x].pos > 0
         /\ a # 0 /\ a \in TreeDentries(dentries)
         /\ b # a /\ b \in TreeDentries(dentries)
         /\ hist.image.d[a].live /\ ~hist.image.d[b].live
         /\ ImageStream(a) = ImageContent
         /\ dentries[b].hard_link = dentries[a].hard_link
         /\ dentries[b].hash = hist.image.d[a].hash
         /\ NewFd(fds) # 0)
        => /\ ReadOfDentry(b) = [err |-> "OK", data |-> Prefix(ImageContent, MaxLen)]
           /\ ReadOfDentry(a) = [err |-> "OK",
                                 data |-> Prefix(files[fds[x].staging_fd].content, MaxLen)]
           /\ ea # 0 /\ eb # 0 /\ ea # eb
           /\ ltes[ea].staging_file_name # 0
           /\ ltes[eb].staging_file_name = 0

\* C3: any two dentries of one hard link group store the same primary
\* stream hash.
C3_LinkGroupSharesHash ==
    daemon = "mounted" =>
        \A a \in TreeDentries(dentries), b \in TreeDentries(dentries) :
            dentries[a].hard_link = dentries[b].hard_link
                => dentries[a].hash = dentries[b].hash

\* C4: a read on a handle whose file was unlinked while the handle was open
\* (its dentry pointer is NULL) succeeds.
C4_UnlinkedButOpen ==
    daemon = "mounted" =>
        \A x \in Fds :
            (fds[x].used /\ fds[x].fh /\ fds[x].dentry = 0)
                => ReadOfHandle(x).err = "OK"


\* The (hash, refcnt) pairs of a catalog.
CatalogPairs(L) == {<<L[e].hash, L[e].refcnt>> : e \in {x \in Ltes : L[x].live}}

\* No live entry is without references and without open descriptors.
NoUnreferencedEntry ==
    \A e \in Ltes : ltes[e].live /\ ltes[e].refcnt = 0 => ltes[e].num_opened_fds > 0

\* C5 as stated: every live entry with refcnt 0 has open descriptors, and
\* the entries a step destroys (unlink, release or the commit's merging of
\* duplicates) had refcnt 0 and no open descriptor.
C5_DeferredFreeAsStated ==
    /\ NoUnreferencedEntry
    /\ \A r \in freed : r.refcnt = 0 /\ r.num_opened_fds = 0

\* C5, amended: every live entry with refcnt 0 has open descriptors;
\* while mounted an entry is destroyed only with refcnt 0 and no open
\* descriptor; the commit's merging of duplicates destroys staged entries
\* that still carry a reference (refcnt >= 1), whatever their descriptors.
C5_DeferredFree ==
    /\ NoUnreferencedEntry
    /\ ret.op # "destroy" => \A r \in freed : r.refcnt = 0 /\ r.num_opened_fds = 0
    /\ ret.op = "destroy" => \A r \in freed : r.refcnt >= 1

\* An unlink or a release has destroyed an entry, and the commit has
\* merged a duplicate.
C5_Witness_MidSession == ret.op \in {"unlink", "release"} /\ freed # {}

C5_Witness ==
    /\ ret.op = "destroy" /\ dd.stage = "done"
    /\ \E r \in freed : r.refcnt >= 1

\* C10: when no mutating call was made during the mount, a committed
\* unmount leaves every dentry's stream hashes and the catalog's (hash,
\* refcnt) pairs as they were in the mounted image.
C10_NoOpCommitRoundTrip ==
    (daemon = "exited" /\ ~hist.mutated /\ dd.msg[1] = 1 /\ dd.stage = "done")
        => /\ \A d \in Dentries :
                /\ dentries[d].live = hist.image.d[d].live
                /\ dentries[d].hash = hist.image.d[d].hash
                /\ dentries[d].ads = hist.image.d[d].ads
           /\ CatalogPairs(ltes) = CatalogPairs(hist.image.l)

\* wimfs_destroy has got as far as its reply on a read-write mount.
Replied == daemon = "exited" /\ dd.sent /\ mount_flags.rw

\* A requested commit has failed in the daemon.
CommitFailed ==
    /\ daemon \in {"destroy_reply", "exited"}
    /\ mount_flags.rw
    /\ dd.msg[1] # 0
    /\ dd.stage \in {"chdir", "close", "sha1", "overwrite"}

\* C6: on a read-write mount, a daemon whose receive timed out does not run
\* the commit pipeline, removes the staging directory, and replies with a
\* non-zero status byte.
C6_UnmountTimeout ==
    (Replied /\ dd.bytes_received = -1)
        => dd.stage = "none" /\ dd.deleted /\ dd.status # 0

\* C7: on a read-write mount, a destroy callback that has sent its reply
\* has run the removal of the staging directory before, whatever the
\* outcome of the commit.
C7_StagingRemovedBeforeReply == Replied => dd.deleted

\* C8: when a requested commit has failed (chdir, closing the staging
\* descriptors, rehashing, overwrite), the status the daemon sends is
\* non-zero, and a driver that receives the byte returns it, non-zero.
C8_CommitFailureSurfaced ==
    /\ CommitFailed => dd.status # 0
    /\ driver.received =>
          /\ driver.mailbox = dd.status
          /\ driver.ret = driver.mailbox
    /\ (CommitFailed /\ driver.received) => driver.ret # 0

C8_Witness ==
    /\ CommitFailed /\ driver.received /\ driver.pc = "done"
    /\ dd.stage = "overwrite" /\ driver.ret # 0

\* What holds of the driver at every moment, by C9: it never sends a second
\* message and sends the two flag bytes; it waits only after having sent;
\* a timeout is returned as the timeout error, never as a success; once it
\* has returned, the queues it opened are closed.
DriverSafe ==
    /\ Len(driver.sent) <= 1
    /\ \A i \in 1..Len(driver.sent) : driver.sent[i] = driver.flags /\ Len(driver.sent[i]) = 2
    /\ (driver.pc = "recv" \/ driver.received \/ driver.timedout) => Len(driver.sent) = 1
    /\ driver.timedout => driver.ret = wimlib_error_code.TIMEOUT /\ driver.ret # 0
    /\ driver.pc = "done" => driver.u2d = 0 /\ driver.d2u = 0

\* C9 as stated: besides, a driver that has returned after a successful
\* fusermount has sent exactly one message.
C9_DriverAsStated ==
    /\ DriverSafe
    /\ (driver.pc = "done" /\ driver.unmounted) => Len(driver.sent) = 1

\* C9, amended: the driver always returns; it is DriverSafe throughout; a
\* driver that has returned after a successful fusermount has sent exactly
\* one message unless open_message_queues or mq_send failed, and then it
\* has sent none and returned that error.
C9_DriverTerminates ==
    /\ []DriverSafe
    /\ []((driver.pc = "done" /\ driver.unmounted)
            => \/ Len(driver.sent) = 1
               \/ /\ driver.sent = <<>>
                  /\ driver.ret \in {wimlib_error_code.NOMEM, wimlib_error_code.MQUEUE})
    /\ <>(driver.pc = "done")

\* The driver has returned the timeout error after sending its message,
\* its queues closed.
C9_Witness ==
    /\ driver.pc = "done" /\ driver.timedout /\ Len(driver.sent) = 1
    /\ driver.opened /\ driver.u2d = 0

\* The step taken is the callback `op` returning r.
IsStep(op, r) ==
    /\ daemon = "mounted"
    /\ ret' = [op |-> op, err |-> r.err, data |-> r.data]
    /\ dentries' = r.S.d
    /\ ltes' = r.S.l
    /\ fds' = r.S.h
    /\ files' = r.S.f

\* The results wimfs_truncate(path, size) can have in the current state.
TruncateResults(path, size) ==
    UNION {Outcomes([ub \in UBOutcomes |->
                        wimfs_truncate(Cur, mount_flags, lr, size, "none", ub)])
           : lr \in lookup_resource(dentries, mount_flags, path, "")}

\* C11: after a successful truncate(path, size) of a file whose primary
\* stream was archive-backed, the path's dentry stores a new placeholder
\* hash that names a staged entry of original_size = size whose staging file
\* holds the first size bytes of the old contents, and every dentry outside
\* the hard link group that stored the old hash still reaches the
\* archive-backed entry with the full contents.
C11_TruncateArchiveBacked ==
    [][\A path \in Paths, size \in 0..MaxLen :
       \A d \in get_dentry(dentries, path) \cap Dentries :
       \A r \in TruncateResults(path, size) :
          LET old == __lookup_resource(ltes, dentries[d].hash)
              new == __lookup_resource(ltes', dentries'[d].hash)
          IN
          (/\ IsStep("truncate", r) /\ r.err = "OK"
           /\ old # 0 /\ ltes[old].staging_file_name = 0)
          => /\ dentries'[d].hash.kind = "random"
             /\ new # 0
             /\ ltes'[new].staging_file_name # 0
             /\ ltes'[new].original_size = size
             /\ files'[ltes'[new].staging_file_name].present
             /\ files'[ltes'[new].staging_file_name].content = Prefix(ltes[old].res, size)
             /\ \A o \in TreeDentries(dentries) :
                   (dentries[o].hard_link # dentries[d].hard_link
                    /\ dentries[o].hash = dentries[d].hash)
                   => LET kept == __lookup_resource(ltes', dentries'[o].hash) IN
                      /\ kept # 0
                      /\ ltes'[kept].staging_file_name = 0
                      /\ ltes'[kept].res = ltes[old].res
                      /\ ltes'[kept].original_size = ltes[old].original_size
      ]_vars

\* The size of the primary stream of dentry d.
StreamSize(d) ==
    LET e == __lookup_resource(ltes, dentries[d].hash)
    IN IF e = 0 THEN 0 ELSE ltes[e].original_size

\* C12: a truncate(path, size) with size the current size of the file
\* leaves the catalog, the dentries with their hashes and the staging files
\* as they were, whether the file is archive-backed, staged or empty.
C12_TruncateToCurrentSize ==
    [][\A path \in Paths :
       \A d \in get_dentry(dentries, path) \cap Dentries :
       \A r \in TruncateResults(path, StreamSize(d)) :
          IsStep("truncate", r)
          => ltes' = ltes /\ dentries' = dentries /\ files' = files
      ]_vars

\* C13: a rename whose source and target are the same dentry returns
\* success, and a rename fails with ENOENT when the source is missing, with
\* EISDIR for a non-directory onto a directory, with ENOTDIR for a directory
\* onto a non-directory, with ENOTEMPTY for a directory onto a directory
\* that has children, and with ENOENT when the target is missing and so is
\* its parent; in all these cases, and whenever rename returns an error,
\* the dentries and the lookup table entries are as before the call.
C13_RenameNoOpAndErrors ==
    [][(daemon = "mounted" /\ ret'.op = "rename") =>
       \A from \in DirPaths, to \in DirPaths :
       \A r \in wimfs_rename(Cur, from, to) :
          LET srcs == get_dentry(dentries, from)
              dsts == get_dentry(dentries, to)
              Expect(err) == r.err = err /\ dentries' = dentries /\ ltes' = ltes
          IN
          IsStep("rename", r)
          => /\ r.err # "OK" => dentries' = dentries /\ ltes' = ltes
             /\ srcs = {} => Expect("ENOENT")
             /\ \A src \in Dentries, dst \in Dentries :
                   (srcs = {src} /\ dsts = {dst})
                   => /\ src = dst => Expect("OK")
                      /\ (~dentries[src].dir /\ dentries[dst].dir) => Expect("EISDIR")
                      /\ (dentries[src].dir /\ ~dentries[dst].dir) => Expect("ENOTDIR")
                      /\ (/\ src # dst /\ dentries[src].dir /\ dentries[dst].dir
                          /\ \E c \in Dentries :
                                dentries[c].live /\ dentries[c].parent = dst)
                         => Expect("ENOTEMPTY")
             /\ (srcs # {} /\ dsts = {} /\ get_parent_dentry(dentries, to) = {})
                => Expect("ENOENT")
      ]_vars

\* A rename of a directory onto a directory with children was refused.
C13_Witness ==
    /\ ret.op = "rename" /\ ret.err = "ENOTEMPTY"
    /\ \E d \in Dentries : dentries[d].live /\ dentries[d].dir /\ dentries[d].parent \in Dentries

\* The contents the primary stream of dentry d resolves to in a tree D with
\* lookup table L and staging files F.
StreamData(D, L, F, d) ==
    LET e == __lookup_resource(L, D[d].hash) IN
    IF e = 0 THEN <<>>
    ELSE IF L[e].staging_file_name = 0 THEN L[e].res
    ELSE F[L[e].staging_file_name].content

\* C14: when rename(from, to) succeeds and `to` existed as a different
\* dentry, the old target is out of the tree, the refcnt of every lookup
\* table entry has dropped by the number of the old target's streams that
\* stored its hash (an entry that reaches zero may be freed), `to` resolves
\* to the former source dentry, whose contents are what they were, and
\* `from` is not found.
C14_RenameOntoExisting ==
    [][(daemon = "mounted" /\ ret'.op = "rename") =>
       \A from \in Paths, to \in Paths :
       \A r \in wimfs_rename(Cur, from, to) :
       \A src \in Dentries, dst \in Dentries :
          (/\ IsStep("rename", r) /\ r.err = "OK" /\ src # dst
           /\ get_dentry(dentries, from) = {src}
           /\ get_dentry(dentries, to) = {dst})
          => /\ dst \notin TreeDentries(dentries')
             /\ \A e \in Ltes :
                   ltes[e].live
                   => LET n == Cardinality({p \in RefsTo(dentries, ltes[e].hash) : p[1] = dst})
                      IN IF ltes'[e].live /\ ltes'[e].hash = ltes[e].hash
                         THEN ltes'[e].refcnt = ltes[e].refcnt - n
                         ELSE ltes[e].refcnt - n = 0
             /\ get_dentry(dentries', to) = {src}
             /\ get_dentry(dentries', from) = {}
             /\ StreamData(dentries', ltes', files', src)
                    = StreamData(dentries, ltes, files, src)
      ]_vars

\* The children of every directory of the tree D have distinct names.
SiblingNamesDistinct(D) ==
    \A c \in TreeDentries(D) \cap Dentries, k \in TreeDentries(D) \cap Dentries :
        (D[c].parent = D[k].parent /\ D[c].name = D[k].name) => c = k

\* C15: after every mknod, mkdir, link, symlink, rename, unlink and rmdir
\* the children of every directory have pairwise distinct names, and a
\* mknod, mkdir, link or symlink of a path that already resolves to a dentry
\* returns EEXIST and leaves the tree as it was.
C15_SiblingNamesUnique ==
    [][(/\ daemon = "mounted"
        /\ ret'.op \in {"mknod", "mkdir", "link", "symlink", "rename", "unlink", "rmdir"})
       => /\ SiblingNamesDistinct(dentries')
          /\ \A path \in DirPaths :
                (get_dentry(dentries, path) # {}
                 /\ get_parent_dentry(dentries, path) \subseteq
                        {p \in Dentries \cup {0} : dentry_is_directory(dentries, p)})
                => /\ \A r \in wimfs_mknod(Cur, mount_flags, path, "") :
                         IsStep("mknod", r) => r.err = "EEXIST" /\ dentries' = dentries
                   /\ \A r \in wimfs_mkdir(Cur, path) :
                         IsStep("mkdir", r) => r.err = "EEXIST" /\ dentries' = dentries
                   /\ \A to \in Paths : \A r \in wimfs_link(Cur, to, path) :
                         (IsStep("link", r)
                          /\ \A t \in get_dentry(dentries, to) :
                                dentry_is_regular_file(dentries, t)
                          /\ get_dentry(dentries, to) # {})
                         => r.err = "EEXIST" /\ dentries' = dentries
                   /\ \A to \in Paths : \A r \in wimfs_symlink(Cur, to, path, "none") :
                         IsStep("symlink", r) => r.err = "EEXIST" /\ dentries' = dentries
      ]_vars

\* C16: after every opendir, releasedir, rmdir and rename each live dentry
\* is in the tree, or out of it with num_times_opened > 0; a dentry out of
\* the tree stays live until the release that takes its num_times_opened
\* from 1 to 0, and that release destroys it; and a dentry is destroyed only
\* when the step leaves it both out of the tree (it was already, or the
\* step is the rmdir or rename that takes it out) and with no open handle
\* (it had none, or the step is the release of its last one).
C16_DentryLifetime ==
    [][(daemon = "mounted" /\ ret'.op \in {"opendir", "releasedir", "rmdir", "rename"})
       => /\ \A d \in Dentries :
                dentries'[d].live
                => \/ InTree(dentries', d)
                   \/ dentries'[d].parent = -1 /\ dentries'[d].num_times_opened > 0
          /\ \A d \in Dentries :
                (dentries[d].live /\ dentries[d].parent = -1)
                => \/ dentries'[d].live
                   \/ ret'.op = "releasedir" /\ dentries[d].num_times_opened = 1
          /\ \A d \in Dentries :
                (/\ dentries[d].live /\ dentries[d].parent = -1
                 /\ dentries[d].num_times_opened = 1)
                => \A r \in Outcomes([ub \in UBOutcomes |-> wimfs_releasedir(Cur, d, ub)]) :
                      IsStep("releasedir", r) => ~dentries'[d].live
          /\ \A d \in Dentries :
                (dentries[d].live /\ ~dentries'[d].live)
                => /\ dentries[d].parent = -1 \/ ret'.op \in {"rmdir", "rename"}
                   /\ \/ dentries[d].num_times_opened = 0
                      \/ ret'.op = "releasedir" /\ dentries[d].num_times_opened = 1
      ]_vars

\* The lookup table entry e after a step that was to drop n references to
\* it: n lower, or freed on reaching zero.
DroppedBy(e, n) ==
    IF ltes'[e].live /\ ltes'[e].hash = ltes[e].hash
    THEN ltes'[e].refcnt = ltes[e].refcnt - n
    ELSE n > 0 /\ ltes[e].refcnt = n

\* C17: a successful unlink of a path without a stream name takes the
\* dentry out of the tree and lowers the refcnt of every lookup table entry
\* by the number of the dentry's streams (primary and named) that store its
\* hash, no other entry changing its refcnt; a successful unlink of a path
\* with a stream name removes that named stream only, lowers by one the
\* refcnt of the entry of its hash only, and leaves the dentry in the tree
\* with its primary stream and its other named streams.
C17_UnlinkAccounting ==
    [][(daemon = "mounted" /\ ret'.op = "unlink") =>
       \A path \in Paths, stream \in StreamNames :
       \A lr \in lookup_resource(dentries, mount_flags, path, stream) :
          LET d == lr.dentry
              r == wimfs_unlink(Cur, mount_flags, lr, "none")
              Others == \A o \in Dentries \ {d} : dentries'[o] = dentries[o]
          IN
          (IsStep("unlink", r) /\ r.err = "OK")
          => IF lr.slot = 0
             THEN /\ d \notin TreeDentries(dentries')
                  /\ Others
                  /\ \A e \in Ltes :
                        ltes[e].live
                        => DroppedBy(e, Cardinality({s \in Slots(dentries, d) :
                                         HashAt(dentries, d, s) = ltes[e].hash}))
             ELSE /\ d \in TreeDentries(dentries')
                  /\ Others
                  /\ dentries'[d] = [dentries[d] EXCEPT !.ads =
                        SubSeq(@, 1, lr.slot - 1) \o SubSeq(@, lr.slot + 1, Len(@))]
                  /\ \A e \in Ltes :
                        ltes[e].live
                        => DroppedBy(e, IF HashAt(dentries, d, lr.slot) = ltes[e].hash
                                        THEN 1 ELSE 0)
      ]_vars

\* A named stream with a lookup table entry was unlinked from a file that
\* is still in the tree with its primary stream.
C17_Witness ==
    /\ ret.op = "unlink" /\ ret.err = "OK"
    /\ mount_flags.windows
    /\ \E d \in TreeDentries(dentries) \cap Dentries :
          /\ dentries[d].ads = <<>>
          /\ hist.image.d[d].ads # <<>>
          /\ __lookup_resource(ltes, dentries[d].hash) # 0
          /\ __lookup_resource(ltes, hist.image.d[d].ads[1].hash) = 0

\* C18: a successful open, on a read-write mount, of a stream whose hash
\* names no lookup table entry leaves the hash slot holding a placeholder
\* hash; that hash names a lookup table entry that was not there before,
\* with original_size 0 and a staging file that exists and is empty; and the
\* handle returned sits in a slot of that entry's fd table, at its idx,
\* with an open descriptor of the staging file.
C18_OpenEmptyFile ==
    [][(daemon = "mounted" /\ ret'.op = "open" /\ mount_flags.rw) =>
       \A path \in Paths, stream \in StreamNames, writable \in BOOLEAN :
       \A lr \in lookup_resource(dentries, mount_flags, path, stream) :
       \A r \in Outcomes([ub \in UBOutcomes |->
                            wimfs_open(Cur, mount_flags, lr, writable, "none", ub)]) :
          LET d == lr.dentry
              hash == HashAt(dentries', d, lr.slot)
              new == __lookup_resource(ltes', hash)
              f == ltes'[new].staging_file_name
              x == r.fd
          IN
          (/\ IsStep("open", r) /\ r.err = "OK"
           /\ __lookup_resource(ltes, HashAt(dentries, d, lr.slot)) = 0)
          => /\ hash.kind = "random"
             /\ new # 0
             /\ ~ltes[new].live
             /\ \A e \in Ltes : ltes[e].live => ltes[e].hash # hash
             /\ ltes'[new].original_size = 0
             /\ f # 0
             /\ files'[f].present /\ files'[f].content = <<>>
             /\ ~files[f].present
             /\ x \in Fds /\ fds'[x].used /\ ~fds[x].used
             /\ fds'[x].lte = new
             /\ fds'[x].idx + 1 \in 1..ltes'[new].num_allocated_fds
             /\ ltes'[new].fds[fds'[x].idx + 1] = x
             /\ fds'[x].staging_fd = f
      ]_vars

\* An empty file of the image is open, its hash a placeholder that names
\* a staged entry.
C18_Witness ==
    /\ ret.op = "open" /\ ret.err = "OK"
    /\ \E d \in TreeDentries(dentries) \cap Dentries :
          /\ hist.image.d[d].live /\ hist.image.d[d].hash = ZeroHash
          /\ dentries[d].hash.kind = "random"
          /\ \E x \in Fds : fds[x].used /\ fds[x].dentry = d

\* What a divergence of dentry d away from the archive-backed entry old
\* must have done by the end of the step whose result is r.  `opened` holds
\* the handle the step itself put on old before diverging.
Diverged(r, d, old, opened) ==
    LET link_group_size == dentry_link_group_size(dentries, d)
        held == {x \in Fds : fds[x].used /\ fds[x].lte = old} \cup opened
        group == {x \in held :
                    IF x \in opened THEN TRUE
                    ELSE /\ fds[x].dentry # 0
                         /\ dentries[fds[x].dentry].hard_link = dentries[d].hard_link}
        k == Cardinality(group)
        created == {e \in Ltes : ltes'[e].live /\ ~ltes[e].live}
        OnEntry(x, e) ==
            /\ fds'[x].used /\ fds'[x].lte = e
            /\ fds'[x].idx + 1 \in 1..ltes'[e].num_allocated_fds
            /\ ltes'[e].fds[fds'[x].idx + 1] = x
    IN
    /\ r.err = "OK"
    /\ IF link_group_size = ltes[old].refcnt
       THEN /\ created = {}
            /\ ltes'[old].live /\ ltes'[old].staging_file_name # 0
            /\ ltes'[old].hash.kind = "random"
            /\ ltes'[old].refcnt = link_group_size
            /\ \A x \in held : OnEntry(x, old)
            /\ \A x \in held \ opened : fds'[x].idx = fds[x].idx
       ELSE \E new \in Ltes :
            /\ created = {new}
            /\ ltes'[new].staging_file_name # 0
            /\ ltes'[new].refcnt = link_group_size
            /\ ltes'[new].num_allocated_fds = k
            /\ ltes'[new].num_opened_fds = k
            /\ \A x \in group : OnEntry(x, new) /\ fds'[x].idx \in 0..(k - 1)
            /\ \A x \in held \ group : OnEntry(x, old) /\ fds'[x].idx = fds[x].idx
            /\ ltes'[old].live /\ ltes'[old].staging_file_name = 0
            /\ ltes'[old].refcnt = ltes[old].refcnt - link_group_size
            /\ ltes'[old].num_opened_fds
                  = ltes[old].num_opened_fds + Cardinality(opened) - k

\* C19: a truncate, or an open for writing, of a stream whose hash names
\* an archive-backed entry diverges the dentry from it: when the dentry's
\* link_group_size equals the entry's refcnt, no entry is created and the
\* same entry, keeping its handles at their slots, is restamped as staged
\* under a placeholder hash; otherwise one new staged entry is created with
\* refcnt = link_group_size, the k open handles of the old entry whose
\* dentry is in the hard link group sit on it at indices 0..k-1 with
\* num_allocated_fds = num_opened_fds = k, the other handles keep their
\* slots on the old entry, and the old entry's refcnt is link_group_size
\* lower and its num_opened_fds k lower.
C19_ReuseOrSplit ==
    [][(daemon = "mounted" /\ ret'.op \in {"open", "truncate"}) =>
       \A path \in Paths :
       \A lr \in lookup_resource(dentries, mount_flags, path, "") :
          LET d == lr.dentry
              old == __lookup_resource(ltes, HashAt(dentries, d, lr.slot))
          IN
          (lr.err = "OK" /\ old # 0 /\ ltes[old].staging_file_name = 0)
          => /\ \A size \in 0..MaxLen :
                \A r \in Outcomes([ub \in UBOutcomes |->
                            wimfs_truncate(Cur, mount_flags, lr, size, "none", ub)]) :
                   IsStep("truncate", r) => Diverged(r, d, old, {})
             /\ \A r \in Outcomes([ub \in UBOutcomes |->
                            wimfs_open(Cur, mount_flags, lr, TRUE, "none", ub)]) :
                   IsStep("open", r) => Diverged(r, d, old, {r.fd})
      ]_vars

\* C20: after every completed operation, each of the num_allocated_fds
\* slots of every live lookup table entry is empty or holds an open handle
\* whose lte is that entry and whose idx is that slot.
C20_FdSlotBackPointer ==
    daemon = "mounted" =>
        \A e \in Ltes :
            ltes[e].live
            => /\ Len(ltes[e].fds) = ltes[e].num_allocated_fds
               /\ \A i \in 1..ltes[e].num_allocated_fds :
                     \/ ltes[e].fds[i] = 0
                     \/ /\ ltes[e].fds[i] \in Fds
                        /\ fds[ltes[e].fds[i]].used
                        /\ fds[ltes[e].fds[i]].lte = e
                        /\ fds[ltes[e].fds[i]].idx = i - 1

\* A split has moved a handle: two live entries hold a handle each, one of
\* them staged with a table of one slot, the other archive-backed with its
\* slot 0 emptied and a handle further up.
C20_Witness ==
    \E e \in Ltes, o \in Ltes :
        /\ ltes[e].live /\ ltes[e].staging_file_name # 0
        /\ ltes[e].num_allocated_fds = 1 /\ ltes[e].fds[1] # 0
        /\ ltes[o].live /\ ltes[o].staging_file_name = 0
        /\ ltes[o].num_opened_fds = 1
        /\ ltes[o].fds[1] = 0 /\ ltes[o].fds[2] # 0

\* C21: after every completed operation, the num_opened_fds of every live
\* lookup table entry is the number of its num_allocated_fds slots that
\* hold a handle, and is at most num_allocated_fds.
C21_OpenCount ==
    daemon = "mounted" =>
        \A e \in Ltes :
            ltes[e].live
            => /\ Len(ltes[e].fds) = ltes[e].num_allocated_fds
               /\ ltes[e].num_opened_fds
                     = Cardinality({i \in 1..ltes[e].num_allocated_fds : ltes[e].fds[i] # 0})
               /\ ltes[e].num_opened_fds <= ltes[e].num_allocated_fds

\* Two handles were open on one entry and the one at the lower slot was
\* closed: the entry counts one open handle, above a hole.
C21_Witness ==
    /\ ret.op = "release" /\ ret.err = "OK"
    /\ \E e \in Ltes :
          /\ ltes[e].live /\ ltes[e].num_opened_fds = 1
          /\ ltes[e].num_allocated_fds > 1
          /\ ltes[e].fds[1] = 0 /\ ltes[e].fds[2] # 0

\* The handles with a staging descriptor in the slots of the live entries.
StagingHandles ==
    {x \in Fds : /\ fds[x].used /\ fds[x].staging_fd # -1
                 /\ \E e \in Ltes : /\ ltes[e].live
                                    /\ \E i \in 1..ltes[e].num_allocated_fds :
                                          ltes[e].fds[i] = x}

\* C22: when the commit pipeline of a read-write mount has got as far as
\* rehashing, every handle that had a staging descriptor in a slot of a
\* live entry, whatever the slot, has been closed; and a commit whose
\* close(2) fails stops there, with the dentries, the entries and the files
\* as they were.
C22_CommitClosesFirst ==
    [][(daemon = "mounted" /\ mount_flags.rw) =>
       /\ (daemon' = "exited" /\ dd'.msg[1] = 1
           /\ dd'.stage \in {"sha1", "overwrite", "done"})
          => \A x \in StagingHandles : fds'[x].os_closed
       /\ \A order \in Orders(TreeDentries(dentries)) :
             LET rb == rebuild_wim(Cur, order, "close") IN
             StagingHandles # {}
             => /\ rb.stage = "close" /\ rb.ret # 0
                /\ rb.S.d = dentries /\ rb.S.l = ltes /\ rb.S.h = fds /\ rb.S.f = files
      ]_vars

\* The destroy callback of a read-write mount has run a commit whose
\* rehash phase succeeded.
Rehashed ==
    /\ daemon = "mounted" /\ mount_flags.rw
    /\ daemon' = "exited" /\ dd'.msg[1] = 1
    /\ dd'.stage \in {"overwrite", "done"}

\* C23: after the rehash phase of a commit has succeeded, every stream of
\* every dentry of the tree whose hash named a staged entry stores the
\* SHA-1 of that staging file's contents, which names an entry of the
\* lookup table, and no stream of the tree stores a placeholder hash.
C23_RehashComplete ==
    [][Rehashed =>
       \A d \in TreeDentries(dentries) \cap Dentries :
       \A slot \in Slots(dentries, d) :
          LET e == __lookup_resource(ltes, HashAt(dentries, d, slot))
              hash == HashAt(dentries', d, slot)
          IN /\ (e # 0 /\ ltes[e].staging_file_name # 0)
                => /\ hash = sha1sum(files[ltes[e].staging_file_name].content)
                   /\ __lookup_resource(ltes', hash) # 0
             /\ hash.kind # "random"
      ]_vars

C25_OpenForWrite ==
    [][(daemon = "mounted" /\ ret'.op = "open") =>
       \A path \in Paths, stream \in StreamNames :
       \A lr \in lookup_resource(dentries, mount_flags, path, stream) :
       \A r \in Outcomes([ub \in UBOutcomes |->
                            wimfs_open(Cur, mount_flags, lr, TRUE, "none", ub)]) :
          LET d == lr.dentry
              old == __lookup_resource(ltes, HashAt(dentries, d, lr.slot))
              x == r.fd
              e == fds'[x].lte
              f == ltes'[e].staging_file_name
          IN
          (/\ IsStep("open", r) /\ r.err = "OK"
           /\ old # 0 /\ ltes[old].staging_file_name = 0)
          => /\ x \in Fds /\ fds'[x].used /\ ~fds[x].used
             /\ e \in Ltes /\ ltes'[e].live
             /\ f # 0
             /\ files'[f].present /\ ~files[f].present
             /\ files'[f].content = ltes[old].res
             /\ fds'[x].idx + 1 \in 1..ltes'[e].num_allocated_fds
             /\ ltes'[e].fds[fds'[x].idx + 1] = x
             /\ fds'[x].staging_fd = f
             /\ HashAt(dentries', d, lr.slot) = ltes'[e].hash
             /\ __lookup_resource(ltes', ltes'[e].hash) = e
      ]_vars

\* A file of the image that shared its entry with another was opened for
\* writing: the handle is on a staged entry, the archive-backed entry is
\* still there.
C25_Witness ==
    /\ ret.op = "open" /\ ret.err = "OK"
    /\ \E x \in Fds, o \in Ltes :
          /\ fds[x].used /\ fds[x].writable /\ fds[x].staging_fd # -1
          /\ fds[x].lte # o
          /\ ltes[fds[x].lte].live /\ ltes[fds[x].lte].original_size = Len(ImageContent)
          /\ ltes[o].live /\ ltes[o].staging_file_name = 0

\* The lowest empty slot of a table, the slot after its last if it has none.
LowestFree(fdarr) ==
    IF \E i \in 1..Len(fdarr) : fdarr[i] = 0
    THEN CHOOSE i \in 1..Len(fdarr) : fdarr[i] = 0 /\ \A j \in 1..(i - 1) : fdarr[j] # 0
    ELSE Len(fdarr) + 1

\* C26: alloc_wimlib_fd on an entry whose table is full at 65535 slots
\* fails with EMFILE and changes nothing; otherwise it succeeds, a full
\* table of n slots having grown by min(8, 65535 - n) slots to at most
\* 65535, the handle returned sits at the lowest slot that was empty (the
\* first new one if none was) with that idx, and every other slot holds
\* what it held.
C26_FdAllocation ==
    [][(daemon = "mounted" /\ ret'.op = "alloc_wimlib_fd") =>
       \A e \in Ltes :
          LET r == alloc_wimlib_fd(Cur, e, "none")
              n == ltes[e].num_allocated_fds
              full == ltes[e].num_opened_fds = n
              grown == IF ~full THEN n ELSE IF 65535 - n < 8 THEN 65535 ELSE n + 8
              slot == LowestFree(ltes[e].fds)
          IN
          (ltes[e].live /\ IsStep("alloc_wimlib_fd", r))
          => IF full /\ n = 65535
             THEN r.err = "EMFILE" /\ ltes' = ltes /\ fds' = fds
             ELSE /\ r.err = "OK"
                  /\ grown <= 65535
                  /\ ltes'[e].num_allocated_fds = grown
                  /\ Len(ltes'[e].fds) = grown
                  /\ ltes'[e].num_opened_fds = ltes[e].num_opened_fds + 1
                  /\ r.fd \in Fds /\ ~fds[r.fd].used /\ fds'[r.fd].used
                  /\ fds'[r.fd].idx = slot - 1 /\ fds'[r.fd].lte = e
                  /\ \A i \in 1..grown :
                        ltes'[e].fds[i] = IF i = slot THEN r.fd
                                          ELSE IF i <= n THEN ltes[e].fds[i]
                                          ELSE 0
      ]_vars

\* A full table of 65528 slots grew by 7 to the largest size and the handle
\* was allocated in the first new slot.
C26_Witness ==
    /\ ret.op = "alloc_wimlib_fd" /\ ret.err = "OK"
    /\ \E e \in Ltes, x \in Fds :
          /\ ltes[e].live /\ ltes[e].num_allocated_fds = 65535
          /\ ltes[e].num_opened_fds = 65529
          /\ fds[x].used /\ fds[x].lte = e /\ fds[x].idx = 65528
          /\ ltes[e].fds[65529] = x

\* The errors a failing divergence returns.
DivergenceErrors == {"EACCES", "EIO", "ENOMEM"}

\* What a failed divergence must leave behind by the end of the step: the
\* staging files that were there, the entries that were there, each with
\* its hash, refcnt, archive binding and staging file, and every handle in
\* the slot it had.
CleanFailure ==
    /\ files' = files
    /\ \A e \in Ltes :
          /\ ltes'[e].live = ltes[e].live
          /\ ltes[e].live =>
                /\ ltes'[e].hash = ltes[e].hash
                /\ ltes'[e].refcnt = ltes[e].refcnt
                /\ ltes'[e].res = ltes[e].res
                /\ ltes'[e].original_size = ltes[e].original_size
                /\ ltes'[e].staging_file_name = ltes[e].staging_file_name
                /\ \A i \in 1..Len(ltes[e].fds) :
                      ltes[e].fds[i] # 0 =>
                         /\ i <= Len(ltes'[e].fds)
                         /\ ltes'[e].fds[i] = ltes[e].fds[i]
                         /\ fds'[ltes[e].fds[i]] = fds[ltes[e].fds[i]]
    /\ dentries' = dentries

\* C27: a truncate or an open whose divergence fails (creating the staging
\* file, extracting into it, closing it, allocating the new entry or its fd
\* array) leaves no staging file and no lookup entry that was not there,
\* and leaves every entry that was there with its hash, refcnt, archive
\* binding and the handles in its fd slots; a failing truncate leaves the
\* whole state as it was.
C27_DivergenceFailureClean ==
    [][(daemon = "mounted" /\ ret'.op \in {"truncate", "open"}
        /\ ret'.err \in DivergenceErrors) =>
       \A path \in Paths, fail \in ExtractFails, ub \in UBOutcomes :
       \A lr \in lookup_resource(dentries, mount_flags, path, "") :
          /\ \A size \in 0..MaxLen :
                LET r == wimfs_truncate(Cur, mount_flags, lr, size, fail, ub) IN
                (r.err \in DivergenceErrors /\ IsStep("truncate", r))
                => CleanFailure /\ ltes' = ltes /\ fds' = fds
          /\ \A writable \in BOOLEAN :
                LET r == wimfs_open(Cur, mount_flags, lr, writable, fail, ub) IN
                (r.err \in DivergenceErrors /\ IsStep("open", r))
                => CleanFailure
      ]_vars

\* A truncate or an open for writing of a file that shares its
\* archive-backed entry with another file failed while diverging.
C27_Witness ==
    /\ ret.op \in {"truncate", "open"} /\ ret.err \in {"EIO", "ENOMEM"}
    /\ \E e \in Ltes : ltes[e].live /\ ltes[e].refcnt >= 2
                        /\ ltes[e].staging_file_name = 0
    /\ \A f \in Files : ~files[f].present

\* C28: in every interleaving of wimfs_destroy and the unmount driver, a
\* step that removes a queue name from the namespace is taken by a side
\* whose peer is through with its queues already (the daemon has exited,
\* the driver has returned), and once both are through neither name is
\* left.
C28_LastCloserUnlinks ==
    [][/\ \A name \in {"u2d", "d2u"} :
             (mq.names[name] # 0 /\ mq'.names[name] = 0)
             => IF driver' # driver THEN daemon = "exited" ELSE driver.pc = "done"
       /\ (daemon' = "exited" /\ driver'.pc = "done")
             => \A name \in {"u2d", "d2u"} : mq'.names[name] = 0
      ]_vars

\* C29: every handle that wimfs_read, wimfs_write or close_wimlib_fd can be
\* called on (one the kernel holds) and whose lookup entry has a staging
\* file has a staging descriptor, staging_fd # -1, so that the assertions
\* of the three functions hold.
C29_StagingFdSet ==
    daemon = "mounted" =>
        \A x \in Fds :
            (fds[x].used /\ fds[x].fh /\ ltes[fds[x].lte].live
             /\ ltes[fds[x].lte].staging_file_name # 0)
            => fds[x].staging_fd # -1

\* C30: in every interleaving of wimfs_destroy and the unmount driver, a
\* wimlib_unmount called with the commit flag on a read-write mount returns
\* 0 only if the daemon was asked to commit, ran the commit pipeline and
\* the pipeline completed with status 0.
C30_VerdictSound ==
    (/\ mount_flags.rw
     /\ driver.pc = "done" /\ driver.unmounted
     /\ driver.flags[1] = 1
     /\ driver.ret = 0)
    => dd.msg[1] = 1 /\ dd.stage = "done" /\ dd.status = 0

\* C31: the scan of the split branch that moves the handles of the diverging
\* hard link group reads only slots 0 .. num_allocated_fds-1 of the old
\* entry and ends, also when no handle is to be moved: no callback runs off
\* the end of an fd array.
C31_TransferScanInBounds == fault # "out_of_bounds"

\* C32: the split branch never reads the hard link group through the dentry
\* pointer of a handle whose dentry was unlinked while it was open: no
\* callback dereferences a NULL dentry pointer.
C32_NoNullDentryDereference == fault # "null_dereference"

\* C33: before the unmount, every lookup entry that has a staging file name
\* and is still referenced (refcnt > 0) has its staging file in the staging
\* directory; unlinking one of several dentries of a staged entry does not
\* delete the file.
C33_StagingFileOutlivesReferences ==
    daemon = "mounted" =>
        \A e \in Ltes :
            (ltes[e].live /\ ltes[e].staging_file_name # 0 /\ ltes[e].refcnt > 0)
            => files[ltes[e].staging_file_name].present

\* C34: a wimfs_open that returns an error leaves the fd table of every
\* lookup entry as it was: the same num_opened_fds and the same handles in
\* the same slots.
C34_FailedOpenFdTables ==
    [][(daemon = "mounted" /\ ret'.op = "open" /\ ret'.err \notin {"OK", "ABORT"}) =>
       \A e \in Ltes :
          /\ ltes'[e].num_opened_fds = ltes[e].num_opened_fds
          /\ \A i \in 1..Len(ltes'[e].fds) :
                ltes'[e].fds[i] # 0 =>
                   i <= Len(ltes[e].fds) /\ ltes[e].fds[i] = ltes'[e].fds[i]
      ]_vars

\* C35: close_wimlib_fd does not read or write a lookup entry after it
\* destroyed it: the close of the last handle of an entry whose refcnt is 0
\* clears the handle's slot before the entry is freed, so no release ends
\* with an access to freed memory.
C35_CloseNeverTouchesFreedEntry ==
    ret.op = "release" => fault # "use_after_free"

====
